---- MODULE Spec2Model ----
(***************************************************************************)
(* Model of src/GetPaidBD_Code.py: a Telegram referral bot.  The users and *)
(* withdrawals tables live in a remote store (Supabase); every store call  *)
(* is one request that either succeeds or raises.  Handlers are modelled   *)
(* as sequences of steps, one step per store call; the transport calls     *)
(* that surround a store call (replies, edits, notifications) touch no     *)
(* shared state and are folded into the step, their failure drawn          *)
(* nondeterministically.                                                   *)
(***************************************************************************)
EXTENDS Integers, Sequences, FiniteSets, TLC

(* ------------------------------------------------------------------ *)
(* Bounds of the model                                                  *)
(* ------------------------------------------------------------------ *)

\* number of /start updates that carry an argument (a referral link was used)
MaxReferrals == 2

\* number of direct ledger calls issued in the ledger specification
MaxCalls == 3

(* ------------------------------------------------------------------ *)
(* Program constants                                                    *)
(* ------------------------------------------------------------------ *)

JOINING_BONUS == 50
REFERRAL_BONUS == 10
MIN_WITHDRAWAL_AMOUNT == 500

\* Telegram identities an account can be on file for; 1 stands for the operator
Users == {1, 2, 3}
\* the users who send updates to the bot
Senders == {1, 2}
ADMIN_IDS == <<1, 3>>

\* conversation states (range(5) and range(5, 7)); END is ConversationHandler.END
ENTER_FULL_NAME == 0
CHOOSE_METHOD == 1
ENTER_NUMBER == 2
ENTER_AMOUNT == 3
CONFIRM_WITHDRAWAL == 4
BROADCAST_MESSAGE == 5
CONFIRM_BROADCAST_SEND == 6
END == -1

(* ------------------------------------------------------------------ *)
(* Optional values: Python's None is the empty set, a value v is {v}    *)
(* ------------------------------------------------------------------ *)

None == {}
Some(v) == {v}
Get(o) == CHOOSE v \in o : TRUE

(* ------------------------------------------------------------------ *)
(* Text: a string is a sequence of one-character strings                *)
(* ------------------------------------------------------------------ *)

Digits == {"0", "1", "2", "3", "4", "5", "6", "7", "8", "9"}
AsciiLetters ==
    {"a", "b", "c", "d", "e", "f", "g", "h", "i", "j", "k", "l", "m",
     "n", "o", "p", "q", "r", "s", "t", "u", "v", "w", "x", "y", "z",
     "A", "B", "C", "D", "E", "F", "G", "H", "I", "J", "K", "L", "M",
     "N", "O", "P", "Q", "R", "S", "T", "U", "V", "W", "X", "Y", "Z"}
\* stand-ins for characters of the Bengali block U+0980..U+09FF
BanglaLetters == {"bn_ka", "bn_ma"}
Whitespace == {" ", "\t", "\n"}
\* a character str.isdigit() accepts and int() rejects (superscript two)
SuperscriptDigits == {"sup2"}

DigitVal(c) ==
    CASE c = "0" -> 0 [] c = "1" -> 1 [] c = "2" -> 2 [] c = "3" -> 3
      [] c = "4" -> 4 [] c = "5" -> 5 [] c = "6" -> 6 [] c = "7" -> 7
      [] c = "8" -> 8 [] c = "9" -> 9

RECURSIVE LStrip(_)
LStrip(s) == IF s # <<>> /\ Head(s) \in Whitespace THEN LStrip(Tail(s)) ELSE s

RECURSIVE RStrip(_)
RStrip(s) ==
    IF s # <<>> /\ s[Len(s)] \in Whitespace
    THEN RStrip(SubSeq(s, 1, Len(s) - 1))
    ELSE s

\* str.strip()
Strip(s) == RStrip(LStrip(s))

\* str.isdigit(): non-empty and every character a digit
IsDigitStr(s) ==
    /\ s # <<>>
    /\ \A i \in 1..Len(s) : s[i] \in Digits \cup SuperscriptDigits

RECURSIVE DigitsValue(_, _)
DigitsValue(s, acc) ==
    IF s = <<>> THEN acc
    ELSE IF Head(s) = "_" THEN DigitsValue(Tail(s), acc)
    ELSE DigitsValue(Tail(s), 10 * acc + DigitVal(Head(s)))

\* the unsigned part of an int() literal: digits, single underscores between them
IsIntBody(s) ==
    /\ s # <<>>
    /\ \A i \in 1..Len(s) : s[i] \in Digits \cup {"_"}
    /\ s[1] # "_"
    /\ s[Len(s)] # "_"
    /\ \A i \in 1..(Len(s) - 1) : ~(s[i] = "_" /\ s[i + 1] = "_")

\* int(text): Some(value), or None where Python raises ValueError
ParseInt(text) ==
    LET s == Strip(text)
        signed == s # <<>> /\ Head(s) \in {"+", "-"}
        body == IF signed THEN Tail(s) ELSE s
    IN  IF ~IsIntBody(body) THEN None
        ELSE IF signed /\ Head(s) = "-" THEN Some(0 - DigitsValue(body, 0))
        ELSE Some(DigitsValue(body, 0))

(* ------------------------------------------------------------------ *)
(* Inputs                                                               *)
(* ------------------------------------------------------------------ *)

\* user.full_name of the Telegram account
FullName(u) == <<"U", ToString(u)>>

\* context.args of /start: no argument, or the first argument
StartArgs ==
    {None, Some(<<"1">>), Some(<<"2">>), Some(<<"3">>), Some(<<"9">>),
     Some(<<"r", "e", "f">>), Some(<<"sup2">>)}

(* ------------------------------------------------------------------ *)
(* State                                                                *)
(* ------------------------------------------------------------------ *)

VARIABLES
    users,        \* the users table: id -> None or Some(row)
    withdrawals,  \* the withdrawals table: a sequence of rows
    wd_conv,      \* state of the withdrawal ConversationHandler, per user
    bc_conv,      \* state of the broadcast ConversationHandler, per user
    user_data,    \* context.user_data, per user
    pc,           \* position of the handler in flight, per user
    frame,        \* local variables of the handler in flight, per user
    reply,        \* the messages the last step sent: a set of [to, text, counts]
    accrued,      \* history: referrer-side effects applied on behalf of each
                  \* user (in all, and in its last registration), and the
                  \* lines logged for them in its last registration
    net,          \* history: sum of the balance changes written, per account
    ref_starts,   \* number of /start updates with an argument received so far
    calls         \* number of direct ledger calls issued so far

vars ==
    <<users, withdrawals, wd_conv, bc_conv, user_data, pc, frame, reply,
      accrued, net, ref_starts, calls>>

(* ------------------------------------------------------------------ *)
(* Database helper functions                                            *)
(* ------------------------------------------------------------------ *)

\* get_user: the row, or None when there is none or the request raised (ok = FALSE)
get_user(db, user_id, ok) ==
    IF ok /\ user_id \in DOMAIN db THEN db[user_id] ELSE None

\* a row that names the new user itself as its referrer
NewUserRowSelfReferred(user_id, name, referred_by) ==
    [id |-> user_id, name |-> name, balance |-> JOINING_BONUS,
     ref_by |-> Some(user_id), referrals |-> 0, withdraws |-> 0]

\* the row create_user inserts
NewUserRow(user_id, name, referred_by) ==
    [id |-> user_id, name |-> name, balance |-> JOINING_BONUS,
     ref_by |-> referred_by, referrals |-> 0, withdraws |-> 0]

\* a subtract that is never refused
InsufficientFundsUnchecked(current_balance, amount_change, operation) == FALSE

\* update_user_balance, line 137: the subtract that is refused
InsufficientFunds(current_balance, amount_change, operation) ==
    operation = "subtract" /\ current_balance < amount_change

\* update_user_balance, lines 135-138: the balance written
NewBalance(current_balance, amount_change, operation) ==
    IF operation = "add"
    THEN current_balance + amount_change
    ELSE current_balance - amount_change

\* .update({"balance": new_balance}).eq("id", user_id): one column of the
\* row, when there is a row
SetBalance(db, user_id, new_balance) ==
    IF user_id \in DOMAIN db /\ db[user_id] # None
    THEN [db EXCEPT ![user_id] = Some([Get(@) EXCEPT !.balance = new_balance])]
    ELSE db

\* .update({"referrals": new_count}).eq("id", user_id)
SetReferrals(db, user_id, new_count) ==
    IF user_id \in DOMAIN db /\ db[user_id] # None
    THEN [db EXCEPT ![user_id] = Some([Get(@) EXCEPT !.referrals = new_count])]
    ELSE db

\* increment_referral_count, line 153
NewCount(referrals) == referrals + 1

(* ------------------------------------------------------------------ *)
(* Frames of the handlers                                               *)
(* ------------------------------------------------------------------ *)

EmptySession ==
    [wd_name |-> None, wd_method |-> None, wd_acc_num |-> None,
     wd_amount |-> None, bt |-> None, bpi |-> None, bvi |-> None]

EmptyFrame ==
    [referred_by_id |-> None,   \* start_command: referred_by_id
     p_ref_id |-> None,         \* start_command: p_ref_id
     existed |-> FALSE,         \* history: the account was on file at the update
     faulted |-> FALSE,         \* history: a store call of this handler raised
     ref_row |-> None,          \* history: the referrer's row as looked up
     caller |-> "",             \* who called update_user_balance
     ub_user |-> 0,             \* update_user_balance: user_id
     ub_amount |-> 0,           \* update_user_balance: amount_change
     ub_op |-> "",              \* update_user_balance: operation
     current_balance |-> 0,     \* update_user_balance: current_balance
     new_count |-> 0,           \* increment_referral_count: new_count
     balance0 |-> None,         \* confirm: user_current_data['balance']
     debit |-> "",              \* confirm: balance_update_result
     all_uids |-> <<>>,         \* broadcast: all_uids
     next_target |-> 0,         \* broadcast: index of the next recipient
     sent_count |-> 0,          \* broadcast: sent_count
     failed_count |-> 0,        \* broadcast: failed_count
     blocked_count |-> 0,       \* broadcast: blocked_count
     log |-> <<>>,              \* history: the turns of the broadcast loop
     last |-> None]             \* history: the delivery of the last turn

Idle(u) == pc[u] = "idle"

\* what the step sends to the user, if anything
Tell(u, outcome) == reply' = Some([to |-> u, text |-> outcome, counts |-> None])
Quiet == reply' = None

\* a new update of user u is dispatched: the previous one of u has been handled
Arrives(u) ==
    /\ u \in Senders
    /\ Idle(u)

Receives(u) ==
    /\ Arrives(u)
    /\ UNCHANGED <<ref_starts, calls>>

Finish(u, outcome) ==
    /\ pc' = [pc EXCEPT ![u] = "idle"]
    /\ frame' = [frame EXCEPT ![u] = EmptyFrame]
    /\ Tell(u, outcome)

(* ------------------------------------------------------------------ *)
(* Initial state: the bot has just started                              *)
(* ------------------------------------------------------------------ *)

InitRow(u, b) ==
    [id |-> u, name |-> FullName(u), balance |-> b, ref_by |-> None,
     referrals |-> 0, withdraws |-> 0]

\* the tables when the bot starts: the operator has an account that can
\* withdraw, user 3 has the joining bonus, user 2 has it or has no account yet
InitTables ==
    /\ users \in [Users -> {None} \cup {Some(InitRow(u, JOINING_BONUS)) : u \in Users}
                           \cup {Some(InitRow(1, MIN_WITHDRAWAL_AMOUNT))}]
    /\ users[1] = Some(InitRow(1, MIN_WITHDRAWAL_AMOUNT))
    /\ users[3] = Some(InitRow(3, JOINING_BONUS))
    /\ users[2] \in {None, Some(InitRow(2, JOINING_BONUS))}
    /\ withdrawals = <<>>

InitBot ==
    /\ wd_conv = [u \in Users |-> END]
    /\ bc_conv = [u \in Users |-> END]
    /\ user_data = [u \in Users |-> EmptySession]
    /\ pc = [u \in Users |-> "idle"]
    /\ frame = [u \in Users |-> EmptyFrame]
    /\ reply = None
    /\ accrued = [u \in Users |-> [credit |-> 0, count |-> 0, existed |-> FALSE,
                                    logged |-> {}, done |-> {}]]
    /\ net = [u \in Users |-> 0]
    /\ ref_starts = 0
    /\ calls = 0

Init == InitTables /\ InitBot

(* ------------------------------------------------------------------ *)
(* /start                                                               *)
(* ------------------------------------------------------------------ *)

\* a choice of the referrer that does not compare it with the user's own id
RefCandidateAnyId(user_id, args) ==
    IF args = None THEN None
    ELSE IF ~IsDigitStr(Get(args)) THEN None
    ELSE ParseInt(Get(args))

\* lines 226-236: the referrer to look up, None when the argument is refused
RefCandidate(user_id, args) ==
    IF args = None THEN None
    ELSE LET p_ref_id_str == Get(args)
         IN  IF ~IsDigitStr(p_ref_id_str) THEN None
             ELSE LET p == ParseInt(p_ref_id_str)
                  IN  IF p = None THEN None            \* ValueError, line 236
                      ELSE IF Get(p) = user_id THEN None
                      ELSE p

\* lines 248-250: with a referrer, credit it; else the welcome is sent
AfterCreate(u, referred_by_id) ==
    IF referred_by_id # None
    THEN /\ pc' = [pc EXCEPT ![u] = "ub_read"]
         /\ frame' = [frame EXCEPT ![u].caller = "start_command",
                                   ![u].ub_user = Get(referred_by_id),
                                   ![u].ub_amount = REFERRAL_BONUS,
                                   ![u].ub_op = "add"]
         /\ accrued' = [accrued EXCEPT ![u].logged = {}, ![u].done = {}]
         /\ Quiet
    ELSE Finish(u, "welcome_new") /\ UNCHANGED accrued

\* lines 207-236, up to the first store call after get_user(user_id)
start_command(u, args) ==
    /\ Arrives(u)
    /\ IF args = None
       THEN UNCHANGED ref_starts
       ELSE ref_starts < MaxReferrals /\ ref_starts' = ref_starts + 1
    /\ UNCHANGED calls
    /\ \E ok \in BOOLEAN :
        LET existing_user == get_user(users, u, ok)
            cand == RefCandidate(u, args)
            fr == [EmptyFrame EXCEPT !.existed = (users[u] # None),
                                     !.faulted = ~ok,
                                     !.p_ref_id = cand]
        IN  IF existing_user # None
            THEN Finish(u, "welcome_back")
            ELSE /\ frame' = [frame EXCEPT ![u] = fr]
                 /\ pc' = [pc EXCEPT ![u] =
                        IF cand # None THEN "sc_lookup" ELSE "sc_create"]
                 /\ Quiet
    /\ UNCHANGED <<users, withdrawals, wd_conv, bc_conv, user_data, accrued, net>>

\* line 232: get_user(p_ref_id)
start_command_lookup(u) ==
    /\ pc[u] = "sc_lookup"
    /\ \E ok \in BOOLEAN :
        LET found == get_user(users, Get(frame[u].p_ref_id), ok)
        IN  frame' = [frame EXCEPT
                ![u].referred_by_id = IF found # None THEN frame[u].p_ref_id ELSE None,
                ![u].ref_row = found,
                ![u].faulted = frame[u].faulted \/ ~ok]
    /\ pc' = [pc EXCEPT ![u] = "sc_create"]
    /\ Quiet /\ UNCHANGED <<users, withdrawals, wd_conv, bc_conv, user_data, accrued, net, ref_starts, calls>>

\* line 238, create_user lines 108-126: the insert
start_command_create(u) ==
    /\ pc[u] = "sc_create"
    /\ \E ok \in BOOLEAN :
        IF ~ok
        THEN \* any other exception: create_user returns None
             /\ Finish(u, "create_failed")
             /\ UNCHANGED <<users, accrued>>
        ELSE IF users[u] # None
        THEN \* unique violation 23505: create_user goes on to get_user
             /\ pc' = [pc EXCEPT ![u] = "sc_refetch"]
             /\ Quiet /\ UNCHANGED <<users, frame, accrued>>
        ELSE /\ users' = [users EXCEPT ![u] =
                    Some(NewUserRow(u, FullName(u), frame[u].referred_by_id))]
             /\ AfterCreate(u, frame[u].referred_by_id)
    /\ UNCHANGED <<withdrawals, wd_conv, bc_conv, user_data, net, ref_starts, calls>>

\* a duplicate path that answers with the row create_user wanted to insert
create_user_as_inserted(db, user_id, referred_by, ok) ==
    Some(NewUserRow(user_id, FullName(user_id), referred_by))

\* create_user lines 118-124, the insert having hit the unique constraint:
\* return get_user(user_id)
create_user_on_duplicate(db, user_id, referred_by, ok) == get_user(db, user_id, ok)

\* line 238 after the duplicate, and what follows it
start_command_refetch(u) ==
    /\ pc[u] = "sc_refetch"
    /\ \E ok \in BOOLEAN :
        LET new_user == create_user_on_duplicate(users, u,
                                                 frame[u].referred_by_id, ok)
        IN  IF new_user = None
            THEN Finish(u, "create_failed") /\ UNCHANGED accrued
            ELSE AfterCreate(u, frame[u].referred_by_id)
    /\ UNCHANGED <<users, withdrawals, wd_conv, bc_conv, user_data, net,
                   ref_starts, calls>>

\* the members of a list
Range(s) == {s[i] : i \in DOMAIN s}

\* a wrapper that lets every user through
IsAdminUnchecked(user_id) == TRUE

\* admin_only, line 398
IsAdmin(user_id) == user_id \in Range(ADMIN_IDS)

(* ------------------------------------------------------------------ *)
(* End of a conversation handler                                        *)
(* ------------------------------------------------------------------ *)

\* the handler of the withdrawal conversation returns `state`
Returns(u, outcome, state, data) ==
    /\ pc' = [pc EXCEPT ![u] = "idle"]
    /\ frame' = [frame EXCEPT ![u] = EmptyFrame]
    /\ Tell(u, outcome)
    /\ wd_conv' = [wd_conv EXCEPT ![u] = state]
    /\ user_data' = [user_data EXCEPT ![u] = data]

\* an exception leaves the handler: the ConversationHandler keeps its state
\* and error_handler logs; user_data is as the handler left it
Raises(u, data) ==
    /\ pc' = [pc EXCEPT ![u] = "idle"]
    /\ frame' = [frame EXCEPT ![u] = EmptyFrame]
    /\ Tell(u, "raised")
    /\ UNCHANGED wd_conv
    /\ user_data' = [user_data EXCEPT ![u] = data]

\* a message call (reply_text, edit_message_text) that may raise, followed by
\* the rest of the handler
Says(u, outcome, state, data_if_raised, data) ==
    \E delivered \in BOOLEAN :
        IF delivered
        THEN Returns(u, outcome, state, data)
        ELSE Raises(u, data_if_raised)

\* confirm_withdrawal_request_callback: edit_message_text, then
\* context.user_data.clear(); return ConversationHandler.END
ConfirmEnd(u, outcome) == Says(u, outcome, END, user_data[u], EmptySession)

(* ------------------------------------------------------------------ *)
(* update_user_balance and increment_referral_count                     *)
(* ------------------------------------------------------------------ *)

\* logger.warning / logger.error of a referrer-side effect of the
\* registration of u: <<effect, line>>
Logs(u, lines) ==
    IF frame[u].caller = "start_command"
    THEN [accrued EXCEPT ![u].logged = @ \cup lines]
    ELSE accrued

\* the lines update_user_balance logs when get_user gave no row: line 103
\* when the request raised, and the warning of line 132
CreditReadLines(user, ok) ==
    (IF ok THEN {} ELSE {<<"credit", "Error fetching user">>})
    \cup (IF user = None
          THEN {<<"credit", "Balance update attempt for non-existent user">>}
          ELSE {})

\* the line increment_referral_count logs when get_user gave no row: line
\* 103 when the request raised, nothing when there is no row
CountReadLines(user, ok) ==
    IF ok THEN {} ELSE {<<"count", "Error fetching user">>}

\* the frame of u after a store call that succeeded (ok) or raised
Called(u, ok) == [frame[u] EXCEPT !.faulted = @ \/ ~ok]

\* a confirmation that goes on to record_withdrawal whatever the debit returned
AfterDebitUnchecked(u, fr, result) ==
    /\ pc' = [pc EXCEPT ![u] = "wd_record"]
    /\ frame' = [frame EXCEPT ![u] = [fr EXCEPT !.debit = result]]
    /\ Quiet /\ UNCHANGED <<wd_conv, user_data>>

\* lines 565-570: what the confirmation does with the result of the debit
AfterDebit(u, fr, result) ==
    IF result = "True"
    THEN /\ pc' = [pc EXCEPT ![u] = "wd_record"]
         /\ frame' = [frame EXCEPT ![u] = [fr EXCEPT !.debit = result]]
         /\ Quiet /\ UNCHANGED <<wd_conv, user_data>>
    ELSE ConfirmEnd(u, IF result = "insufficient_funds"
                       THEN "WDC-IFUND" ELSE "WDC-UBAL")

\* lines 583-585: the message after the refund
AfterRefund(u, result) ==
    ConfirmEnd(u, IF result = "True" THEN "WDC-RECFAIL-refunded"
                  ELSE "WDC-RECFAIL-not-refunded")

\* the statement after the call of update_user_balance, by caller
AfterUpdateBalance(u, fr, result) ==
    CASE fr.caller = "start_command" ->
            /\ pc' = [pc EXCEPT ![u] = "rc_read"]
            /\ frame' = [frame EXCEPT ![u] = fr]
            /\ Quiet /\ UNCHANGED <<wd_conv, user_data>>
      [] fr.caller = "confirm_debit" -> AfterDebit(u, fr, result)
      [] fr.caller = "confirm_refund" -> AfterRefund(u, result)
      [] OTHER ->
            /\ pc' = [pc EXCEPT ![u] = "idle"]
            /\ frame' = [frame EXCEPT ![u] = EmptyFrame]
            /\ Tell(u, result)
            /\ UNCHANGED <<wd_conv, user_data>>

\* the arguments of the direct calls
LedgerAccounts == {1, 2}
LedgerAmounts == {REFERRAL_BONUS, MIN_WITHDRAWAL_AMOUNT}
LedgerOperations == {"add", "subtract", "set"}

\* line 128: a task calls update_user_balance(user_id, amount_change, operation)
update_user_balance(u, user_id, amount_change, operation) ==
    /\ Arrives(u)
    /\ calls < MaxCalls
    /\ calls' = calls + 1
    /\ pc' = [pc EXCEPT ![u] = "ub_read"]
    /\ frame' = [frame EXCEPT ![u] =
            [EmptyFrame EXCEPT !.caller = "task", !.ub_user = user_id,
                               !.ub_amount = amount_change, !.ub_op = operation]]
    /\ Quiet
    /\ UNCHANGED <<users, withdrawals, wd_conv, bc_conv, user_data, accrued, net,
                   ref_starts>>

\* lines 130-141: get_user, the checks, new_balance
update_user_balance_read(u) ==
    /\ pc[u] = "ub_read"
    /\ \E ok \in BOOLEAN :
        LET user == get_user(users, frame[u].ub_user, ok)
            fr == Called(u, ok)
        IN  /\ accrued' = Logs(u, CreditReadLines(user, ok))
            /\ IF user = None \/ fr.ub_op \notin {"add", "subtract"}
               THEN AfterUpdateBalance(u, fr, "False")
               ELSE IF InsufficientFunds(Get(user).balance, fr.ub_amount, fr.ub_op)
               THEN AfterUpdateBalance(u, fr, "insufficient_funds")
               ELSE /\ pc' = [pc EXCEPT ![u] = "ub_write"]
                    /\ frame' = [frame EXCEPT ![u] =
                           [fr EXCEPT !.current_balance = Get(user).balance]]
                    /\ Quiet /\ UNCHANGED <<wd_conv, user_data>>
    /\ UNCHANGED <<users, withdrawals, bc_conv, net, ref_starts, calls>>

\* lines 142-147: the update request
update_user_balance_write(u) ==
    /\ pc[u] = "ub_write"
    /\ \E ok \in BOOLEAN :
        IF ok
        THEN LET new_balance == NewBalance(frame[u].current_balance,
                                           frame[u].ub_amount, frame[u].ub_op)
             IN  /\ users' = SetBalance(users, frame[u].ub_user, new_balance)
                 /\ net' = [net EXCEPT ![frame[u].ub_user] =
                                @ + new_balance - frame[u].current_balance]
                 /\ accrued' =
                        IF frame[u].caller = "start_command"
                           /\ users[frame[u].ub_user] # None
                        THEN [accrued EXCEPT ![u].credit = @ + 1,
                                             ![u].existed = @ \/ frame[u].existed,
                                             ![u].done = @ \cup {"credit"}]
                        ELSE accrued
                 /\ AfterUpdateBalance(u, Called(u, ok), "True")
        ELSE /\ UNCHANGED <<users, net>>
             /\ accrued' = Logs(u, {<<"credit", "Error updating balance">>})
             /\ AfterUpdateBalance(u, Called(u, ok), "False")
    /\ UNCHANGED <<withdrawals, bc_conv, ref_starts, calls>>

\* the end of start_command: lines 251-265 change nothing
WelcomeReferred(u) ==
    /\ pc' = [pc EXCEPT ![u] = "idle"]
    /\ frame' = [frame EXCEPT ![u] = EmptyFrame]
    /\ Tell(u, "welcome_referred")

\* increment_referral_count, lines 151-153
increment_referral_count_read(u) ==
    /\ pc[u] = "rc_read"
    /\ \E ok \in BOOLEAN :
        LET user == get_user(users, Get(frame[u].referred_by_id), ok)
        IN  /\ accrued' = Logs(u, CountReadLines(user, ok))
            /\ IF user = None
               THEN WelcomeReferred(u)
               ELSE /\ pc' = [pc EXCEPT ![u] = "rc_write"]
                    /\ frame' = [frame EXCEPT ![u] =
                           [Called(u, ok) EXCEPT
                               !.new_count = NewCount(Get(user).referrals)]]
                    /\ Quiet
    /\ UNCHANGED <<users, withdrawals, wd_conv, bc_conv, user_data, net,
                   ref_starts, calls>>

\* increment_referral_count, lines 154-157
increment_referral_count_write(u) ==
    /\ pc[u] = "rc_write"
    /\ \E ok \in BOOLEAN :
        IF ok
        THEN /\ users' = SetReferrals(users, Get(frame[u].referred_by_id),
                                      frame[u].new_count)
             /\ accrued' =
                    IF users[Get(frame[u].referred_by_id)] # None
                    THEN [accrued EXCEPT ![u].count = @ + 1,
                                         ![u].existed = @ \/ frame[u].existed,
                                         ![u].done = @ \cup {"count"}]
                    ELSE accrued
        ELSE /\ UNCHANGED users
             /\ accrued' = Logs(u, {<<"count", "Error incrementing referral count">>})
    /\ WelcomeReferred(u)
    /\ UNCHANGED <<withdrawals, wd_conv, bc_conv, user_data, net, ref_starts, calls>>

(* ------------------------------------------------------------------ *)
(* Updates                                                              *)
(* ------------------------------------------------------------------ *)

\* the texts of the reply keyboard; the first character stands for the emoji
WithdrawButton ==
    <<"em_withdraw", " ", "W", "i", "t", "h", "d", "r", "a", "w", " ",
    "F", "u", "n", "d", "s">>
BalanceButton ==
    <<"em_balance", " ", "M", "y", " ", "B", "a", "l", "a", "n", "c",
    "e">>
ReferButton ==
    <<"em_refer", " ", "R", "e", "f", "e", "r", " ", "a", " ", "F", "r",
    "i", "e", "n", "d">>
StatsButton ==
    <<"em_stats", " ", "M", "y", " ", "S", "t", "a", "t", "s">>
SupportButton ==
    <<"em_support", " ", "S", "u", "p", "p", "o", "r", "t">>
RulesButton ==
    <<"em_list", " ", "R", "u", "l", "e", "s", " ", "&", " ", "T", "e",
    "r", "m", "s">>
HistoryButton ==
    <<"em_list", " ", "W", "i", "t", "h", "d", "r", "a", "w", " ", "H",
    "i", "s", "t", "o", "r", "y">>
GuideButton ==
    <<"em_list", " ", "W", "i", "t", "h", "d", "r", "a", "w", " ", "G",
    "u", "i", "d", "e">>

\* line 647: the buttons the fallback of the withdrawal conversation matches
MenuButtons ==
    {BalanceButton, ReferButton, StatsButton, SupportButton, RulesButton,
     HistoryButton, GuideButton}

Repeat(c, n) == [i \in 1..n |-> c]

\* texts a user types: a name, an account number, amounts.  Each is also an
\* invalid entry for the other prompts
TypedTexts ==
    {<<"A", "l", "i">>,
     <<"0", "1", "7">> \o Repeat("1", 8),
     <<"4", "9", "9">>, <<"5", "0", "0">>, <<"5", "0", "1">>}

\* callback data, split at the underscores
WdmBkash == <<"wdm", "bkash">>
WdCancelConv == <<"wd", "cancel", "conv">>
WdFinalConfirm == <<"wd", "final", "confirm">>
ConfirmBcast == <<"confirm", "bcast">>
CancelBcast == <<"cancel", "bcast">>

\* the buttons a user presses
ButtonData ==
    {WdmBkash, WdCancelConv, WdFinalConfirm, ConfirmBcast, CancelBcast}

Command(cmd, args) ==
    [kind |-> "command", cmd |-> cmd, args |-> args, text |-> <<>>, data |-> <<>>]
Text(t) ==
    [kind |-> "text", cmd |-> "", args |-> None, text |-> t, data |-> <<>>]
Media(m) ==
    [kind |-> m, cmd |-> "", args |-> None, text |-> <<>>, data |-> <<>>]
Callback(d) ==
    [kind |-> "callback", cmd |-> "", args |-> None, text |-> <<>>, data |-> d]

\* the updates a user can send
Updates ==
    {Command("start", a) : a \in StartArgs}
    \cup {Command(c, None) : c \in {"cancelwithdrawal", "broadcast", "cancel"}}
    \cup {Text(t) : t \in TypedTexts \cup {WithdrawButton, BalanceButton}}
    \cup {Media(m) : m \in {"photo", "video"}}
    \cup {Callback(d) : d \in ButtonData}

TextUpdates == {upd \in Updates : upd.kind = "text"}
CallbackUpdates == {upd \in Updates : upd.kind = "callback"}
CommandUpdates == {upd \in Updates : upd.kind = "command"}

(* ------------------------------------------------------------------ *)
(* main(): the handlers of group 0, in the order they were added; the   *)
(* first one that matches handles the update                            *)
(* ------------------------------------------------------------------ *)

\* pattern "^wdm_.*$"
IsWdm(d) == Len(d) >= 2 /\ d[1] = "wdm"

\* lines 636-651: wd_conv.  Entry points first (allow_reentry), then the
\* handlers of the current state, then the fallbacks
RouteWithdrawal(st, upd) ==
    IF upd.kind = "text" /\ upd.text = WithdrawButton THEN "start_withdrawal"
    ELSE IF st = END THEN "none"
    ELSE IF st = ENTER_FULL_NAME /\ upd.kind = "text" THEN "enter_full_name"
    ELSE IF st = CHOOSE_METHOD /\ upd.kind = "callback"
            /\ (IsWdm(upd.data) \/ upd.data = WdCancelConv)
         THEN "choose_payment_method_callback"
    ELSE IF st = ENTER_NUMBER /\ upd.kind = "text" THEN "enter_account_number"
    ELSE IF st = ENTER_AMOUNT /\ upd.kind = "text" THEN "enter_withdrawal_amount"
    ELSE IF st = CONFIRM_WITHDRAWAL /\ upd.kind = "callback"
            /\ upd.data \in {WdFinalConfirm, WdCancelConv}
         THEN "confirm_withdrawal_request_callback"
    ELSE IF upd.kind = "command" /\ upd.cmd = "cancelwithdrawal"
         THEN "cancel_withdrawal_command"
    ELSE IF upd.kind = "callback" /\ upd.data = WdCancelConv
         THEN "cancel_withdrawal_command"
    ELSE IF upd.kind = "text" /\ upd.text \in MenuButtons
         THEN "cancel_withdrawal_command"
    ELSE IF upd.kind = "command" THEN "cancel_withdrawal_command"
    ELSE "none"

\* lines 654-664: bc_conv.  filters.TEXT|filters.PHOTO|filters.VIDEO & ~filters.COMMAND
\* is TEXT | PHOTO | (VIDEO & ~COMMAND): a command is a text message too
RouteBroadcast(st, upd) ==
    IF upd.kind = "command" /\ upd.cmd = "broadcast" THEN "start_broadcast"
    ELSE IF st = END THEN "none"
    ELSE IF st = BROADCAST_MESSAGE /\ upd.kind \in {"text", "command", "photo", "video"}
         THEN "receive_broadcast_message"
    ELSE IF st = CONFIRM_BROADCAST_SEND /\ upd.kind = "callback"
            /\ upd.data \in {ConfirmBcast, CancelBcast}
         THEN "confirm_broadcast_send_callback"
    ELSE IF upd.kind = "command" /\ upd.cmd = "cancel" THEN "broadcast_cancel_command"
    ELSE IF upd.kind = "callback" /\ upd.data = CancelBcast
         THEN "broadcast_cancel_command"
    ELSE "none"

\* lines 666-669
Route(u, upd) ==
    IF upd.kind = "command" /\ upd.cmd = "start" THEN "start_command"
    ELSE IF RouteWithdrawal(wd_conv[u], upd) # "none"
         THEN RouteWithdrawal(wd_conv[u], upd)
    ELSE IF RouteBroadcast(bc_conv[u], upd) # "none"
         THEN RouteBroadcast(bc_conv[u], upd)
    ELSE IF upd.kind = "text" THEN "handle_general_messages"
    ELSE "none"

(* ------------------------------------------------------------------ *)
(* Withdrawal conversation handlers                                     *)
(* ------------------------------------------------------------------ *)

\* line 487: 3-60 characters of [a-zA-Z\u0980-\u09FF\s.'-]
ValidName(name) ==
    /\ 3 <= Len(name)
    /\ Len(name) <= 60
    /\ \A i \in 1..Len(name) :
          name[i] \in AsciiLetters \cup BanglaLetters \cup Whitespace
                      \cup {".", "'", "-"}

\* line 511: ^01[3-9]\d{8}(\d?)$
ValidAccountNumber(acc_num) ==
    /\ Len(acc_num) \in {11, 12}
    /\ acc_num[1] = "0"
    /\ acc_num[2] = "1"
    /\ acc_num[3] \in {"3", "4", "5", "6", "7", "8", "9"}
    /\ \A i \in 4..Len(acc_num) : acc_num[i] \in Digits

\* a range check without the minimum
AmountAcceptedBelowMinimum(amt_requested, current_balance) ==
    /\ amt_requested <= current_balance
    /\ amt_requested > 0

\* line 525
AmountAccepted(amt_requested, current_balance) ==
    /\ MIN_WITHDRAWAL_AMOUNT <= amt_requested
    /\ amt_requested <= current_balance
    /\ amt_requested > 0

\* a value Python takes as true: neither None nor the empty string
Truthy(o) == o # None /\ Get(o) # <<>>

\* line 554: all([name, method, acc, amt is not None])
SessionComplete(ud) ==
    /\ Truthy(ud.wd_name)
    /\ ud.wd_method # None /\ Get(ud.wd_method) # ""
    /\ Truthy(ud.wd_acc_num)
    /\ ud.wd_amount # None

\* a start of the withdrawal that does not look at the balance
WithdrawalStartedUnchecked(u, ok) ==
    IF get_user(users, u, ok) = None
    THEN Says(u, "user_not_found", END, user_data[u], user_data[u])
    ELSE Says(u, "ask_name", ENTER_FULL_NAME, EmptySession, EmptySession)

\* lines 471-483: the handler; ok is whether the request of get_user returned
WithdrawalStarted(u, ok) ==
    LET user == get_user(users, u, ok)
    IN  IF user = None
        THEN Says(u, "user_not_found", END, user_data[u], user_data[u])
        ELSE IF Get(user).balance < MIN_WITHDRAWAL_AMOUNT
        THEN Says(u, "balance_low", END, user_data[u], user_data[u])
        ELSE Says(u, "ask_name", ENTER_FULL_NAME, EmptySession, EmptySession)

\* the dispatch of the text 'Withdraw Funds' to start_withdrawal
start_withdrawal(u) ==
    /\ Receives(u)
    /\ \E upd \in TextUpdates : Route(u, upd) = "start_withdrawal"
    /\ \E ok \in BOOLEAN : WithdrawalStarted(u, ok)
    /\ UNCHANGED <<users, withdrawals, bc_conv, accrued, net>>

\* lines 485-493: the handler on a message with this text
NameEntered(u, message_text) ==
    LET name == Strip(message_text)
        ud == [user_data[u] EXCEPT !.wd_name = Some(name)]
    IN  IF ~ValidName(name)
        THEN Says(u, "invalid_name", ENTER_FULL_NAME, user_data[u], user_data[u])
        ELSE Says(u, "ask_method", CHOOSE_METHOD, ud, ud)

\* the dispatch of a text message to enter_full_name
enter_full_name(u) ==
    /\ Receives(u)
    /\ \E upd \in TextUpdates :
        /\ Route(u, upd) = "enter_full_name"
        /\ NameEntered(u, upd.text)
    /\ UNCHANGED <<users, withdrawals, bc_conv, accrued, net>>

\* a method handler that goes on to the amount without asking for the number
MethodPressedSkipsNumber(u, data, answered) ==
    LET method == data[Len(data)]
        ud == [user_data[u] EXCEPT !.wd_method = Some(method)]
    IN  IF ~answered
        THEN Raises(u, user_data[u])
        ELSE IF data = WdCancelConv
        THEN Says(u, "wd_cancelled", END, user_data[u], EmptySession)
        ELSE Says(u, "ask_amount", ENTER_AMOUNT, ud, ud)

\* lines 495-506: the handler on a callback query with this data; answered
\* is whether query.answer() returned
MethodPressed(u, data, answered) ==
    LET method == data[Len(data)]
        ud == [user_data[u] EXCEPT !.wd_method = Some(method)]
    IN  IF ~answered
        THEN Raises(u, user_data[u])
        ELSE IF data = WdCancelConv
        THEN Says(u, "wd_cancelled", END, user_data[u], EmptySession)
        ELSE Says(u, "ask_number", ENTER_NUMBER, ud, ud)

\* the dispatch of a callback query to choose_payment_method_callback
choose_payment_method_callback(u) ==
    /\ Receives(u)
    /\ \E upd \in CallbackUpdates, answered \in BOOLEAN :
        /\ Route(u, upd) = "choose_payment_method_callback"
        /\ MethodPressed(u, upd.data, answered)
    /\ UNCHANGED <<users, withdrawals, bc_conv, accrued, net>>

\* lines 508-517: the handler on a message with this text; ok is whether the
\* request of get_user returned
NumberEntered(u, message_text, ok) ==
    LET acc_num == Strip(message_text)
        ud == [user_data[u] EXCEPT !.wd_acc_num = Some(acc_num)]
    IN  IF ~ValidAccountNumber(acc_num)
        THEN Says(u, "invalid_number", ENTER_NUMBER, user_data[u], user_data[u])
        ELSE IF get_user(users, u, ok) = None
        THEN Raises(u, ud)             \* None.get: AttributeError, line 515
        ELSE Says(u, "ask_amount", ENTER_AMOUNT, ud, ud)

\* the dispatch of a text message to enter_account_number
enter_account_number(u) ==
    /\ Receives(u)
    /\ \E upd \in TextUpdates, ok \in BOOLEAN :
        /\ Route(u, upd) = "enter_account_number"
        /\ NumberEntered(u, upd.text, ok)
    /\ UNCHANGED <<users, withdrawals, bc_conv, accrued, net>>

\* an amount handler that issues the debit itself once the amount is accepted
AmountEnteredDebiting(u, message_text, ok) ==
    LET amt == ParseInt(message_text)
        user == get_user(users, u, ok)
        ud == [user_data[u] EXCEPT !.wd_amount = amt]
    IN  IF amt = None \/ user = None
        THEN Says(u, "invalid_amount", ENTER_AMOUNT, user_data[u], user_data[u])
        ELSE IF ~AmountAccepted(Get(amt), Get(user).balance) \/ ~SessionComplete(ud)
        THEN Says(u, "amount_refused", ENTER_AMOUNT, user_data[u], user_data[u])
        ELSE /\ pc' = [pc EXCEPT ![u] = "ub_read"]
             /\ frame' = [frame EXCEPT ![u] =
                   [EmptyFrame EXCEPT
                       !.caller = "confirm_debit",
                       !.ub_user = u,
                       !.ub_amount = Get(amt),
                       !.ub_op = "subtract",
                       !.balance0 = Some(Get(user).balance)]]
             /\ user_data' = [user_data EXCEPT ![u] = ud]
             /\ Quiet /\ UNCHANGED wd_conv

\* lines 519-543: the handler on a message with this text; ok is whether the
\* request of get_user returned
AmountEntered(u, message_text, ok) ==
    LET amt == ParseInt(message_text)
        user == get_user(users, u, ok)
        ud == [user_data[u] EXCEPT !.wd_amount = amt]
    IN  IF amt = None
        THEN Says(u, "invalid_amount", ENTER_AMOUNT, user_data[u], user_data[u])
        ELSE IF user = None
        THEN Raises(u, user_data[u])   \* None.get: AttributeError, line 524
        ELSE IF ~AmountAccepted(Get(amt), Get(user).balance)
        THEN Says(u, "amount_refused", ENTER_AMOUNT, user_data[u], user_data[u])
        ELSE IF ud.wd_name = None \/ ud.wd_method = None \/ ud.wd_acc_num = None
        THEN Raises(u, ud)             \* KeyError, lines 536-538
        ELSE Says(u, "ask_confirm", CONFIRM_WITHDRAWAL, ud, ud)

\* the dispatch of a text message to enter_withdrawal_amount
enter_withdrawal_amount(u) ==
    /\ Receives(u)
    /\ \E upd \in TextUpdates, ok \in BOOLEAN :
        /\ Route(u, upd) = "enter_withdrawal_amount"
        /\ AmountEntered(u, upd.text, ok)
    /\ UNCHANGED <<users, withdrawals, bc_conv, accrued, net>>

\* lines 591-593: the handler on this update; as a CallbackQueryHandler
\* fallback it gets an update whose message is None
CancelReceived(u, upd) ==
    IF upd.kind = "callback"
    THEN Raises(u, user_data[u])       \* None.reply_text: AttributeError
    ELSE Says(u, "wd_cancelled", END, user_data[u], EmptySession)

\* the dispatch of an update to cancel_withdrawal_command by a fallback
cancel_withdrawal_command(u) ==
    /\ Receives(u)
    /\ \E upd \in Updates :
        /\ Route(u, upd) = "cancel_withdrawal_command"
        /\ CancelReceived(u, upd)
    /\ UNCHANGED <<users, withdrawals, bc_conv, accrued, net>>

\* lines 545-563: the handler on a callback query with this data, up to the
\* call of update_user_balance; answered is whether query.answer() returned,
\* ok whether the request of get_user returned
ConfirmPressed(u, data, answered, ok) ==
    LET ud == user_data[u]
        user_current_data == get_user(users, u, ok)
    IN  IF ~answered
        THEN Raises(u, ud)
        ELSE IF data = WdCancelConv
        THEN Says(u, "wd_cancelled", END, ud, EmptySession)
        ELSE IF ~SessionComplete(ud)
        THEN ConfirmEnd(u, "WDC-MDATA")
        ELSE IF user_current_data = None
                \/ Get(user_current_data).balance < Get(ud.wd_amount)
        THEN ConfirmEnd(u, "WDC-LBAL")
        ELSE /\ pc' = [pc EXCEPT ![u] = "ub_read"]
             /\ frame' = [frame EXCEPT ![u] =
                   [EmptyFrame EXCEPT
                       !.caller = "confirm_debit",
                       !.ub_user = u,
                       !.ub_amount = Get(ud.wd_amount),
                       !.ub_op = "subtract",
                       !.balance0 = Some(Get(user_current_data).balance)]]
             /\ Quiet /\ UNCHANGED <<wd_conv, user_data>>

\* the dispatch of a callback query to confirm_withdrawal_request_callback
confirm_withdrawal_request_callback(u) ==
    /\ Receives(u)
    /\ \E upd \in CallbackUpdates, answered \in BOOLEAN, ok \in BOOLEAN :
        /\ Route(u, upd) = "confirm_withdrawal_request_callback"
        /\ ConfirmPressed(u, upd.data, answered, ok)
    /\ UNCHANGED <<users, withdrawals, bc_conv, accrued, net>>

\* record_withdrawal, lines 161-165
WithdrawalRow(request_id, user_id, ud) ==
    [request_id |-> request_id, user_id |-> user_id,
     full_name |-> Get(ud.wd_name), amount |-> Get(ud.wd_amount),
     method |-> Get(ud.wd_method), account_number |-> Get(ud.wd_acc_num),
     status |-> "pending"]

\* lines 574-579, 587-589: the reply to the user, which may raise; then the
\* notification of every admin, whose failure is caught and logged (kept
\* among the messages of the step as admin_notification_failed); then
\* context.user_data.clear(); return ConversationHandler.END
NotifyAdmins(u) ==
    \E delivered \in BOOLEAN, notified \in SUBSET Range(ADMIN_IDS) :
        IF delivered
        THEN /\ pc' = [pc EXCEPT ![u] = "idle"]
             /\ frame' = [frame EXCEPT ![u] = EmptyFrame]
             /\ reply' = Some([to |-> u, text |-> "WD-OK", counts |-> None])
                          \cup {[to |-> a,
                                  text |-> IF a \in notified
                                           THEN "admin_notification"
                                           ELSE "admin_notification_failed",
                                  counts |-> None] : a \in Range(ADMIN_IDS)}
             /\ wd_conv' = [wd_conv EXCEPT ![u] = END]
             /\ user_data' = [user_data EXCEPT ![u] = EmptySession]
        ELSE /\ notified = {}
             /\ Raises(u, user_data[u])

\* lines 572-589: record_withdrawal, then the reply or the refund
record_withdrawal(u) ==
    /\ pc[u] = "wd_record"
    /\ \E ok \in BOOLEAN :
        IF ok
        THEN /\ withdrawals' = Append(withdrawals,
                    WithdrawalRow(Len(withdrawals) + 1, u, user_data[u]))
             /\ NotifyAdmins(u)
        ELSE /\ Quiet /\ UNCHANGED <<withdrawals, wd_conv, user_data>>
             /\ pc' = [pc EXCEPT ![u] = "ub_read"]
             /\ frame' = [frame EXCEPT ![u] =
                    [Called(u, ok) EXCEPT !.caller = "confirm_refund",
                                          !.ub_op = "add"]]
    /\ UNCHANGED <<users, bc_conv, accrued, net, ref_starts, calls>>

\* lines 596-610: the menu texts outside a conversation
handle_general_messages(u) ==
    /\ Receives(u)
    /\ \E upd \in TextUpdates : Route(u, upd) = "handle_general_messages"
    /\ UNCHANGED <<pc, frame>>
    /\ Tell(u, "menu")
    /\ UNCHANGED <<users, withdrawals, wd_conv, bc_conv, user_data, accrued, net>>

(* ------------------------------------------------------------------ *)
(* Broadcast conversation handlers                                      *)
(* ------------------------------------------------------------------ *)

\* the handler of the broadcast conversation returns `state`
BcEnds(u, state, data) ==
    /\ pc' = [pc EXCEPT ![u] = "idle"]
    /\ frame' = [frame EXCEPT ![u] = EmptyFrame]
    /\ bc_conv' = [bc_conv EXCEPT ![u] = state]
    /\ user_data' = [user_data EXCEPT ![u] = data]

BcReturns(u, outcome, state, data) ==
    /\ BcEnds(u, state, data)
    /\ Tell(u, outcome)

BcRaises(u, data) ==
    /\ pc' = [pc EXCEPT ![u] = "idle"]
    /\ frame' = [frame EXCEPT ![u] = EmptyFrame]
    /\ Tell(u, "raised")
    /\ UNCHANGED bc_conv
    /\ user_data' = [user_data EXCEPT ![u] = data]

BcSays(u, outcome, state, data_if_raised, data) ==
    \E delivered \in BOOLEAN :
        IF delivered
        THEN BcReturns(u, outcome, state, data)
        ELSE BcRaises(u, data_if_raised)

\* lines 396-408: admin_only(start_broadcast)
start_broadcast(u) ==
    /\ Receives(u)
    /\ \E upd \in CommandUpdates : Route(u, upd) = "start_broadcast"
    /\ IF IsAdmin(u)
       THEN BcSays(u, "ask_broadcast", BROADCAST_MESSAGE, user_data[u],
                   user_data[u])
       ELSE BcSays(u, "admin_only", END, user_data[u], user_data[u])
    /\ UNCHANGED <<users, withdrawals, wd_conv, accrued, net>>

\* msg.text of a text message or of a command (empty for a photo or a video);
\* no handler reads the payload of a broadcast, so 'bt' keeps one token for it
MessageText(upd) ==
    IF upd.kind = "command" THEN <<"/", upd.cmd>> ELSE upd.text

\* lines 410-428
receive_broadcast_message(u) ==
    /\ Receives(u)
    /\ \E upd \in Updates :
        /\ Route(u, upd) = "receive_broadcast_message"
        /\ LET ud == [user_data[u] EXCEPT
                        !.bt = IF MessageText(upd) # <<>>
                               THEN Some(<<"text">>) ELSE None,
                        !.bpi = IF upd.kind = "photo"
                                THEN Some(<<"photo_file_id">>) ELSE None,
                        !.bvi = IF upd.kind = "video"
                                THEN Some(<<"video_file_id">>) ELSE None]
           IN  BcSays(u, "broadcast_preview", CONFIRM_BROADCAST_SEND, ud, ud)
    /\ UNCHANGED <<users, withdrawals, wd_conv, accrued, net>>

\* get_all_user_ids, lines 175-181: the ids on file, [] when the request raised
RECURSIVE IdsFrom(_, _)
IdsFrom(db, i) ==
    IF \A k \in DOMAIN db : k < i THEN <<>>
    ELSE IF i \in DOMAIN db /\ db[i] # None THEN <<i>> \o IdsFrom(db, i + 1)
    ELSE IdsFrom(db, i + 1)

get_all_user_ids(db, ok) == IF ok THEN IdsFrom(db, 1) ELSE <<>>

\* lines 430-444: up to the first delivery
confirm_broadcast_send_callback(u) ==
    /\ Receives(u)
    /\ \E upd \in CallbackUpdates, answered \in BOOLEAN, ok \in BOOLEAN :
        /\ Route(u, upd) = "confirm_broadcast_send_callback"
        /\ LET all_uids == get_all_user_ids(users, ok)
           IN  IF ~answered
               THEN BcRaises(u, user_data[u])
               ELSE IF upd.data = CancelBcast
               THEN BcSays(u, "broadcast_cancelled", END, user_data[u],
                           EmptySession)
               ELSE IF all_uids = <<>>
               THEN BcSays(u, "no_users", END, user_data[u], EmptySession)
               ELSE \/ BcRaises(u, user_data[u])    \* "Sending broadcast..." raised
                    \/ /\ pc' = [pc EXCEPT ![u] = "bc_send"]
                       /\ frame' = [frame EXCEPT ![u] =
                             [EmptyFrame EXCEPT !.all_uids = all_uids,
                                                !.next_target = 1]]
                       /\ Quiet /\ UNCHANGED <<bc_conv, user_data>>
    /\ UNCHANGED <<users, withdrawals, wd_conv, accrued, net>>

\* what a delivery call does: it returns, or raises an error with a message
Deliveries ==
    {[raised |-> "", words |-> {}],
     [raised |-> "TelegramError", words |-> {"forbidden", "blocked"}],
     [raised |-> "TelegramError", words |-> {"forbidden", "deactivated"}],
     [raised |-> "TelegramError", words |-> {"chat", "not found"}],
     [raised |-> "TelegramError", words |-> {"timed out"}],
     [raised |-> "Exception", words |-> {"not found"}]}

\* a classification that counts only the errors of Telegram
ClassifyTelegramOnly(d) ==
    IF d.raised = "" THEN "sent"
    ELSE IF d.raised # "TelegramError" THEN "uncounted"
    ELSE IF d.words \cap {"blocked", "deactivated", "not found"} # {}
    THEN "blocked"
    ELSE "failed"

\* lines 451-455: Sent, Blocked or Failed
Classify(d) ==
    IF d.raised = "" THEN "sent"
    ELSE IF d.raised = "TelegramError"
            /\ d.words \cap {"blocked", "deactivated", "not found"} # {}
    THEN "blocked"
    ELSE "failed"

\* lines 448-450: the payload decides whether a send call is made at all
HasPayload(ud) == Truthy(ud.bt) \/ Truthy(ud.bpi) \/ Truthy(ud.bvi)

\* lines 458-462
Summary(fr) ==
    [targeted |-> Len(fr.all_uids), sent |-> fr.sent_count,
     failed |-> fr.failed_count, blocked |-> fr.blocked_count]

\* lines 446-456, one turn of the loop as a record: the recipient and
\* whether a send call was made for it (lines 448-450)
Turn(fr, called) == [to |-> fr.all_uids[fr.next_target], called |-> called]

\* what the send call of the turn did, if one was made, and the counter raised
Delivered(called, d, outcome) ==
    Some([called |-> called,
          delivery |-> IF called THEN d ELSE [raised |-> "", words |-> {}],
          counted |-> outcome])

\* a loop that a delivery error gets out of: the handler raises at the first
\* recipient whose send call raised
broadcast_send_aborting(u) ==
    /\ pc[u] = "bc_send"
    /\ IF frame[u].next_target <= Len(frame[u].all_uids)
       THEN \E d \in Deliveries :
            IF HasPayload(user_data[u]) /\ d.raised # ""
            THEN BcRaises(u, user_data[u])
            ELSE /\ frame' = [frame EXCEPT ![u] = [@ EXCEPT
                     !.log = Append(@, Turn(frame[u], HasPayload(user_data[u]))),
                     !.last = Delivered(HasPayload(user_data[u]), d, "sent"),
                     !.sent_count = @ + 1,
                     !.next_target = @ + 1]]
                 /\ Quiet /\ UNCHANGED <<pc, bc_conv, user_data>>
       ELSE /\ BcEnds(u, END, EmptySession)
            /\ reply' = Some([to |-> u, text |-> "broadcast_complete",
                              counts |-> Some(Summary(frame[u]))])
    /\ UNCHANGED <<users, withdrawals, wd_conv, accrued, net, ref_starts, calls>>

\* lines 446-464: one turn of the loop, or after the last turn the summary
broadcast_send(u) ==
    /\ pc[u] = "bc_send"
    /\ IF frame[u].next_target <= Len(frame[u].all_uids)
       THEN \E d \in Deliveries :
            LET called == HasPayload(user_data[u])
                outcome == IF called THEN Classify(d) ELSE "sent"
            IN  /\ frame' = [frame EXCEPT ![u] = [@ EXCEPT
                    !.log = Append(@, Turn(frame[u], called)),
                    !.last = Delivered(called, d, outcome),
                    !.sent_count = IF outcome = "sent" THEN @ + 1 ELSE @,
                    !.blocked_count = IF outcome = "blocked" THEN @ + 1 ELSE @,
                    !.failed_count = IF outcome = "failed" THEN @ + 1 ELSE @,
                    !.next_target = @ + 1]]
                /\ Quiet /\ UNCHANGED <<pc, bc_conv, user_data>>
       ELSE \E delivered \in BOOLEAN :
                IF delivered
                THEN /\ BcEnds(u, END, EmptySession)
                     /\ reply' = Some([to |-> u, text |-> "broadcast_complete",
                                       counts |-> Some(Summary(frame[u]))])
                ELSE \* send_message raises with summary_msg built
                     /\ pc' = [pc EXCEPT ![u] = "idle"]
                     /\ frame' = [frame EXCEPT ![u] = EmptyFrame]
                     /\ reply' = Some([to |-> u, text |-> "raised",
                                       counts |-> Some(Summary(frame[u]))])
                     /\ UNCHANGED <<bc_conv, user_data>>
    /\ UNCHANGED <<users, withdrawals, wd_conv, accrued, net, ref_starts, calls>>

\* lines 466-468; as a CallbackQueryHandler fallback update.message is None
broadcast_cancel_command(u) ==
    /\ Receives(u)
    /\ \E upd \in Updates :
        /\ Route(u, upd) = "broadcast_cancel_command"
        /\ IF upd.kind = "callback"
           THEN BcRaises(u, user_data[u])
           ELSE BcSays(u, "broadcast_cancelled", END, user_data[u],
                       EmptySession)
    /\ UNCHANGED <<users, withdrawals, wd_conv, accrued, net>>

(* ------------------------------------------------------------------ *)
(* The bot                                                              *)
(* ------------------------------------------------------------------ *)

\* the handlers of /start
Registration(u) ==
    \/ \E a \in StartArgs : start_command(u, a)
    \/ start_command_lookup(u)
    \/ start_command_create(u)
    \/ start_command_refetch(u)
    \/ increment_referral_count_read(u)
    \/ increment_referral_count_write(u)

\* the two requests of update_user_balance, whoever called it
Ledger(u) ==
    \/ update_user_balance_read(u)
    \/ update_user_balance_write(u)

\* the handlers of wd_conv and the general message handler
Withdrawal(u) ==
    \/ start_withdrawal(u)
    \/ enter_full_name(u)
    \/ choose_payment_method_callback(u)
    \/ enter_account_number(u)
    \/ enter_withdrawal_amount(u)
    \/ cancel_withdrawal_command(u)
    \/ confirm_withdrawal_request_callback(u)
    \/ record_withdrawal(u)
    \/ handle_general_messages(u)

\* the handlers of bc_conv
Broadcast(u) ==
    \/ start_broadcast(u)
    \/ receive_broadcast_message(u)
    \/ confirm_broadcast_send_callback(u)
    \/ broadcast_send(u)
    \/ broadcast_cancel_command(u)

Step(u) == Registration(u) \/ Ledger(u) \/ Withdrawal(u) \/ Broadcast(u)

\* the whole bot; handlers of different users interleave at their store and
\* transport calls
Next == \E u \in Users : Step(u)

Spec == Init /\ [][Next]_vars

\* registrations only: /start updates of several users, interleaved
NextStart == \E u \in Users : Registration(u) \/ Ledger(u)

SpecStart == Init /\ [][NextStart]_vars

\* the operator's two conversations, which share context.user_data
NextOperator == \E u \in Users : Withdrawal(u) \/ Ledger(u) \/ Broadcast(u)

SpecOperator == Init /\ [][NextOperator]_vars

\* update_user_balance called directly by concurrent tasks
\* the users table is a Supabase table other clients can write: the row of a
\* referrer that is not talking to the bot is deleted while a registration it
\* refers is under way
account_deleted(a) ==
    /\ a \notin Senders
    /\ users[a] # None
    /\ \E u \in Users : pc[u] # "idle" /\ frame[u].referred_by_id = Some(a)
    /\ users' = [users EXCEPT ![a] = None]
    /\ Quiet
    /\ UNCHANGED <<withdrawals, wd_conv, bc_conv, user_data, pc, frame, accrued,
                   net, ref_starts, calls>>

NextDeletion ==
    \E u \in Users : Registration(u) \/ Ledger(u) \/ account_deleted(u)

\* the updates of bc_conv, and the event loop running the coroutine of a
\* handler in flight: every awaited send call and asyncio.sleep of the
\* broadcast loop returns
NextDispatch == \E u \in Users : Broadcast(u)

SpecDispatch ==
    /\ Init
    /\ [][NextDispatch]_vars
    /\ \A u \in Users : WF_vars(broadcast_send(u))

\* registrations up to the credit of the referrer, next to the withdrawals
\* of the referrer up to the record of the request
NextSpend ==
    \E u \in Users :
        \/ \E a \in StartArgs : start_command(u, a)
        \/ start_command_lookup(u)
        \/ start_command_create(u)
        \/ Ledger(u)
        \/ start_withdrawal(u)
        \/ enter_full_name(u)
        \/ choose_payment_method_callback(u)
        \/ enter_account_number(u)
        \/ enter_withdrawal_amount(u)
        \/ confirm_withdrawal_request_callback(u)
        \/ record_withdrawal(u)

SpecSpend == Init /\ [][NextSpend]_vars

\* registrations while rows of the users table may be deleted under the bot
SpecDeletion == Init /\ [][NextDeletion]_vars

NextLedger ==
    \E u \in Users :
        \/ \E user_id \in LedgerAccounts, amount_change \in LedgerAmounts,
              operation \in LedgerOperations :
                update_user_balance(u, user_id, amount_change, operation)
        \/ Ledger(u)

SpecLedger == Init /\ [][NextLedger]_vars

(* ------------------------------------------------------------------ *)
(* Properties                                                           *)
(* ------------------------------------------------------------------ *)

Balance(u) == Get(users[u]).balance

\* the step in which the confirmation of u that reached the debit returns
ConfirmationEnds(u) ==
    /\ frame[u].balance0 # None
    /\ pc[u] # "idle"
    /\ pc'[u] = "idle"

\* the step appends a Pending request of u for amt
Recorded(u, amt) ==
    /\ Len(withdrawals') = Len(withdrawals) + 1
    /\ LET row == withdrawals'[Len(withdrawals')]
       IN  row.user_id = u /\ row.amount = amt /\ row.status = "pending"

\* C1: every withdrawal confirmation, whatever store or transport call
\* fails, ends either with a Pending request on file and the balance lower by
\* the amount, or with no request and the balance as it was.  (A confirmation
\* that returns before the debit changes neither table.)
C1_ConfirmationSettles ==
    [][\A u \in Users :
        ConfirmationEnds(u) =>
            LET before == Get(frame[u].balance0)
                amt == frame[u].ub_amount
                after == Get(users'[u]).balance
            IN  \/ Recorded(u, amt) /\ after = before - amt
                \/ withdrawals' = withdrawals /\ after = before]_vars

\* the balance an account on file has when the bot starts
InitBalance(a) == IF a = 1 THEN MIN_WITHDRAWAL_AMOUNT ELSE JOINING_BONUS

\* the step in which the call of update_user_balance by task u returns
\* after its get_user
ReturnsAtRead(u) ==
    /\ pc[u] = "ub_read"
    /\ frame[u].caller = "task"
    /\ pc'[u] = "idle"

\* the balance the call of task u would read exceeds what it subtracts
Overdraws(u) ==
    /\ frame[u].ub_user \in Users
    /\ users[frame[u].ub_user] # None
    /\ InsufficientFunds(Balance(frame[u].ub_user), frame[u].ub_amount,
                         frame[u].ub_op)

\* C2: whatever calls of update_user_balance with positive amounts have run,
\* one after the other or interleaved, no balance is negative; a subtract of
\* more than the balance on file never reaches the update request and leaves
\* the balance as it was, returning 'insufficient_funds' (False when its
\* get_user raised and no balance was read); and 'insufficient_funds' is
\* returned by no other call.
C2_BalanceNeverNegative ==
    /\ [](\A a \in Users : users[a] # None => Balance(a) >= 0)
    /\ [][\A u \in Users :
            /\ (pc[u] = "ub_read" /\ pc'[u] # "ub_read" /\ Overdraws(u)) =>
                    /\ users' = users
                    /\ pc'[u] = "idle"
                    /\ frame[u].caller = "task" =>
                            Get(reply').text \in {"insufficient_funds", "False"}
            /\ (ReturnsAtRead(u) /\ Get(reply').text = "insufficient_funds") =>
                    Overdraws(u)]_vars

\* a subtract has been refused on an account that an earlier call had emptied
C2_Witness ==
    /\ reply = Some([to |-> 2, text |-> "insufficient_funds", counts |-> None])
    /\ Balance(1) = 0
    /\ net[1] = -MIN_WITHDRAWAL_AMOUNT
    /\ calls >= 2

\* C3: when no call of update_user_balance is in flight, the balance of an
\* account is its initial balance plus the sum of the changes of the calls
\* that returned True: no update is lost, however the calls interleaved.
C3_NoLostUpdate ==
    \A a \in Users :
        ((\A u \in Users : Idle(u)) /\ users[a] # None) =>
            Balance(a) = InitBalance(a) + net[a]

\* the confirmation of u in flight has debited the amount of its session
Funded(u) ==
    /\ frame[u].caller = "confirm_debit"
    /\ frame[u].debit = "True"
    /\ frame[u].ub_user = u
    /\ frame[u].ub_op = "subtract"
    /\ user_data[u].wd_amount = Some(frame[u].ub_amount)
    /\ Balance(u) = Get(frame[u].balance0) - frame[u].ub_amount

\* C4: record_withdrawal is called only by a confirmation whose
\* update_user_balance(user, amount, 'subtract') returned True and took the
\* amount off the balance, and every row that appears in withdrawals is
\* written by such a confirmation, for its user and its amount.
C4_DebitBeforeRecord ==
    /\ [](\A u \in Users : pc[u] = "wd_record" => Funded(u))
    /\ [][withdrawals' # withdrawals =>
            \E u \in Users : /\ pc[u] = "wd_record"
                              /\ Funded(u)
                              /\ Recorded(u, frame[u].ub_amount)]_vars

\* a request of 500 is on file and the balance of 500 is spent
C4_Witness ==
    /\ Len(withdrawals) = 1
    /\ withdrawals[1].user_id = 1
    /\ withdrawals[1].amount = MIN_WITHDRAWAL_AMOUNT
    /\ Balance(1) = 0
    /\ [to |-> 1, text |-> "WD-OK", counts |-> None] \in reply

\* C9: in ENTER_AMOUNT a message whose text is an integer moves the session to
\* CONFIRM_WITHDRAWAL if MIN_WITHDRAWAL_AMOUNT <= amount <= balance, and
\* leaves it in ENTER_AMOUNT otherwise.
C9_AmountAcceptedIff ==
    [][\A u \in Users, upd \in TextUpdates, ok \in BOOLEAN :
        ( /\ Idle(u)
          /\ users[u] # None
          /\ Route(u, upd) = "enter_withdrawal_amount"
          /\ ParseInt(upd.text) # None
          /\ AmountEntered(u, upd.text, ok) ) =>
            LET amount == Get(ParseInt(upd.text))
            IN  IF MIN_WITHDRAWAL_AMOUNT <= amount /\ amount <= Balance(u)
                THEN wd_conv'[u] = CONFIRM_WITHDRAWAL
                ELSE wd_conv'[u] = ENTER_AMOUNT]_vars

\* an amount within the limits was entered and the session is still in
\* ENTER_AMOUNT, the handler having raised
C9_ValidAmountNotAccepted ==
    /\ wd_conv[1] = ENTER_AMOUNT
    /\ user_data[1].wd_amount = Some(MIN_WITHDRAWAL_AMOUNT)
    /\ user_data[1].wd_name = None
    /\ Balance(1) = MIN_WITHDRAWAL_AMOUNT
    /\ reply = Some([to |-> 1, text |-> "raised", counts |-> None])

\* the accounts on file
OnFile == {a \in Users : users[a] # None}

\* C10: the summary a broadcast sends when it completes has
\* targeted = sent + failed + blocked, targeted being the number of ids
\* get_all_user_ids returned, whatever the outcome of each delivery.
C10_SummaryAddsUp ==
    \A m \in reply :
        m.counts # None =>
            LET c == Get(m.counts)
            IN  /\ c.targeted = c.sent + c.failed + c.blocked
                /\ c.targeted = Cardinality(OnFile)

\* a summary over three recipients, one of each outcome
C10_Witness ==
    reply = Some([to |-> 1, text |-> "broadcast_complete",
                  counts |-> Some([targeted |-> 3, sent |-> 1, failed |-> 1,
                                   blocked |-> 1])])

\* C5: over any sequence of /start updates, the credit and the count
\* increment of a referrer are applied at most once on behalf of one user,
\* and never on behalf of a user whose account was on file when the update
\* came.
C5_AccrualAtMostOnce ==
    \A u \in Users :
        /\ accrued[u].credit <= 1
        /\ accrued[u].count <= 1
        /\ ~accrued[u].existed

\* the step in which the /start handler of u, who had no account and whose
\* referrer resolved, returns with u registered
RegisteredReferred(u) ==
    /\ frame[u].caller = "start_command"
    /\ ~frame[u].existed
    /\ frame[u].referred_by_id # None
    /\ pc[u] # "idle"
    /\ pc'[u] = "idle"
    /\ users'[u] # None

\* C6: when a new user has registered with a referrer that resolved, the
\* balance of the referrer is REFERRAL_BONUS above and its count one above
\* what they were, and the new row has JOINING_BONUS and the referrer in
\* ref_by.
C6_ReferralApplied ==
    [][\A u \in Users :
        RegisteredReferred(u) =>
            LET r == Get(frame[u].referred_by_id)
                before == Get(frame[u].ref_row)
                after == Get(users'[r])
                new_row == Get(users'[u])
            IN  /\ after.balance = before.balance + REFERRAL_BONUS
                /\ after.referrals = before.referrals + 1
                /\ new_row.balance = JOINING_BONUS
                /\ new_row.ref_by = Some(r)]_vars

\* user 2 is registered with referrer 1, whose count went up and whose
\* balance did not
C6_CountedNotCredited ==
    /\ users[2] # None
    /\ Get(users[2]).ref_by = Some(1)
    /\ Get(users[1]).referrals = 1
    /\ Balance(1) = MIN_WITHDRAWAL_AMOUNT
    /\ reply = Some([to |-> 2, text |-> "welcome_referred", counts |-> None])

\* the positions of the /start handler before the referrer-side calls
StartSteps == {"sc_lookup", "sc_create", "sc_refetch"}

\* C7: a referrer argument that is the user's own id is refused, and one that
\* does not resolve to an account leaves referred_by_id unset; the handler of
\* such a /start changes no row but the user's own, creates the row with
\* ref_by unset and makes no referrer-side call.  The referrer-side calls are
\* made only for a referrer that is another id and resolved to its account.
C7_NoBonusWithoutReferrer ==
    /\ [](\A u \in Users, a \in StartArgs :
            (a # None /\ ParseInt(Get(a)) = Some(u)) => RefCandidate(u, a) = None)
    /\ [](\A u \in Users :
            /\ frame[u].referred_by_id # None =>
                    /\ frame[u].referred_by_id = frame[u].p_ref_id
                    /\ Get(frame[u].referred_by_id) # u
                    /\ frame[u].ref_row # None
                    /\ Get(frame[u].ref_row).id = Get(frame[u].referred_by_id)
            /\ frame[u].caller = "start_command" =>
                    frame[u].referred_by_id # None)
    /\ [][\A u \in Users :
            (pc[u] \in StartSteps /\ pc'[u] # pc[u]) =>
                /\ \A a \in Users \ {u} : users'[a] = users[a]
                /\ (users[u] = None /\ users'[u] # None) =>
                        /\ Get(users'[u]).ref_by = frame[u].referred_by_id
                        /\ Get(users'[u]).balance = JOINING_BONUS
                /\ frame[u].referred_by_id = None =>
                        pc'[u] \in StartSteps \cup {"idle"}]_vars

\* user 2 has just registered with an argument that named no account or
\* itself: it has no referrer and no balance or count has moved
C7_Witness ==
    /\ reply = Some([to |-> 2, text |-> "welcome_new", counts |-> None])
    /\ ref_starts = 1
    /\ users[2] = Some(NewUserRow(2, FullName(2), None))
    /\ \A a \in Users : net[a] = 0 /\ accrued[a].count = 0

\* C8 as stated: create_user called for an id that is on file returns the
\* stored account and changes nothing in the store.
C8_CreateIdempotent ==
    [][\A u \in Users :
        (pc[u] \in {"sc_create", "sc_refetch"} /\ pc'[u] # pc[u]
         /\ users[u] # None) =>
            /\ users' = users
            /\ reply' # Some([to |-> u, text |-> "create_failed",
                              counts |-> None])]_vars

\* C8 as it holds: create_user called for an id that is on file changes
\* nothing in the store; it returns the stored row when its requests return,
\* and None when the insert raised something else than the duplicate or the
\* get_user that follows the duplicate raised.
C8_CreateKeepsStore ==
    /\ [](\A u \in Users :
            users[u] # None =>
                /\ create_user_on_duplicate(users, u, None, TRUE) = users[u]
                /\ create_user_on_duplicate(users, u, None, FALSE) = None)
    /\ [][\A u \in Users :
            (pc[u] \in {"sc_create", "sc_refetch"} /\ pc'[u] # pc[u]
             /\ users[u] # None) =>
                users' = users]_vars

\* the duplicate path has been taken for user 2, whose row no longer is the
\* one of a fresh account, and the handler went on to the referrer-side calls
C8_Witness ==
    /\ pc[2] = "ub_read"
    /\ frame[2].caller = "start_command"
    /\ frame[2].existed
    /\ users[2] # None
    /\ Get(users[2]).balance # JOINING_BONUS

(* ------------------------------------------------------------------ *)
(* Broadcast: the loop over the recipients                              *)
(* ------------------------------------------------------------------ *)

\* the broadcast loop of u is running
Dispatching(u) == pc[u] = "bc_send"

\* the recipients the loop of u has gone through so far
Turns(u) == frame[u].log

\* the loop of u has gone through the whole list and is about to report
LoopDone(u) ==
    /\ Dispatching(u)
    /\ frame[u].next_target > Len(frame[u].all_uids)

\* C11: within one broadcast every recipient of the list gets exactly one
\* delivery attempt, in the order of the list: after k turns the send calls
\* made are one call to each of the first k recipients, in that order, and a
\* turn never ends the loop or repeats a recipient, whatever its delivery did.
C11_EveryRecipientAttemptedOnce ==
    /\ [](\A u \in Users : Dispatching(u) =>
            /\ Len(Turns(u)) = frame[u].next_target - 1
            /\ \A i \in 1..Len(Turns(u)) :
                    /\ Turns(u)[i].to = frame[u].all_uids[i]
                    /\ Turns(u)[i].called)
    /\ [][\A u \in Users :
            (Dispatching(u) /\ ~LoopDone(u) /\ frame'[u] # frame[u]) =>
                /\ pc'[u] = "bc_send"
                /\ frame'[u].all_uids = frame[u].all_uids
                /\ frame'[u].next_target = frame[u].next_target + 1]_vars

\* a broadcast over three recipients went through the whole list and made no
\* send call for any of them
C11_NoSendCallMade ==
    \E u \in Users :
        /\ LoopDone(u)
        /\ Len(frame[u].all_uids) = 3
        /\ \A i \in 1..3 : ~Turns(u)[i].called

\* the order of the list and the isolation of failures, whether or not a send
\* call is made in a turn: k turns have gone through the first k recipients
LoopVisitsInOrder ==
    /\ [](\A u \in Users : Dispatching(u) =>
            /\ Len(Turns(u)) = frame[u].next_target - 1
            /\ \A i \in 1..Len(Turns(u)) : Turns(u)[i].to = frame[u].all_uids[i])
    /\ [][\A u \in Users :
            (Dispatching(u) /\ ~LoopDone(u) /\ frame'[u] # frame[u]) =>
                /\ pc'[u] = "bc_send"
                /\ frame'[u].all_uids = frame[u].all_uids
                /\ frame'[u].next_target = frame[u].next_target + 1]_vars

\* the error of a delivery says blocked, deactivated or not found
SaysUnreachable(d) ==
    /\ d.raised = "TelegramError"
    /\ d.words \cap {"blocked", "deactivated", "not found"} # {}

\* C12: every turn of the broadcast loop is counted as exactly one of Sent,
\* Blocked, Failed: Sent only when a send call was made for the recipient and
\* returned, Blocked when the call raised an error that says blocked,
\* deactivated or not found, Failed when it raised any other error.
C12_CountedAsDelivered ==
    \A u \in Users : (Dispatching(u) /\ frame[u].last # None) =>
        LET turn == Get(frame[u].last)
        IN  /\ turn.counted \in {"sent", "blocked", "failed"}
            /\ turn.counted = "sent" <=>
                    (turn.called /\ turn.delivery.raised = "")
            /\ turn.counted = "blocked" <=>
                    (turn.called /\ SaysUnreachable(turn.delivery))
            /\ turn.counted = "failed" <=>
                    (turn.called /\ turn.delivery.raised # ""
                        /\ ~SaysUnreachable(turn.delivery))

\* the summary of a broadcast reports every recipient as sent although no
\* send call was made: the loop ran with nothing to send
C12_SentWithoutSendCall ==
    \E u \in Users :
        /\ LoopDone(u)
        /\ ~HasPayload(user_data[u])
        /\ frame[u].sent_count = Len(frame[u].all_uids)
        /\ frame[u].sent_count >= 2
        /\ ~Get(frame[u].last).called

(* ------------------------------------------------------------------ *)
(* Withdrawal: the life of a session                                    *)
(* ------------------------------------------------------------------ *)

\* the fields a withdrawal session accumulates are all cleared
NoFields(ud) ==
    /\ ud.wd_name = None
    /\ ud.wd_method = None
    /\ ud.wd_acc_num = None
    /\ ud.wd_amount = None

\* the session of u is discarded: the conversation is over, nothing is kept
Discarded(u) ==
    /\ wd_conv'[u] = END
    /\ NoFields(user_data'[u])

\* the step in which the handler of a wd_final_confirm of u returns or
\* raises: at once, or after the debit, the record or the refund
ConfirmReturns(u) ==
    \/ /\ u \in Senders
       /\ Idle(u)
       /\ wd_conv[u] = CONFIRM_WITHDRAWAL
       /\ pc'[u] = "idle"
       /\ \E answered \in BOOLEAN, ok \in BOOLEAN :
            ConfirmPressed(u, WdFinalConfirm, answered, ok)
    \/ /\ pc[u] \in {"ub_read", "ub_write", "wd_record"}
       /\ frame[u].caller \in {"confirm_debit", "confirm_refund"}
       /\ pc'[u] = "idle"

\* C13: once a confirm pressed in CONFIRM_WITHDRAWAL has been handled,
\* whatever the outcome and whether or not the reply to the user went through,
\* the conversation is over and no field is kept; and in a conversation that
\* is over a confirm reaches no handler, so it debits and records nothing.
C13_ConfirmDiscardsSession ==
    /\ [][\A u \in Users : ConfirmReturns(u) => Discarded(u)]_vars
    /\ [](\A u \in Users : wd_conv[u] = END =>
            Route(u, Callback(WdFinalConfirm)) = "none")

\* the request of user 1 is on file and the balance is spent, yet the session
\* is still waiting for a confirm with all its fields
C13_RecordedNotDiscarded ==
    /\ Len(withdrawals) = 1
    /\ withdrawals[1].user_id = 1
    /\ Balance(1) = 0
    /\ Idle(1)
    /\ wd_conv[1] = CONFIRM_WITHDRAWAL
    /\ SessionComplete(user_data[1])
    /\ Route(1, Callback(WdFinalConfirm)) = "confirm_withdrawal_request_callback"

\* the explicit cancel inputs: the command and the cancel button
ExplicitCancels == {Command("cancelwithdrawal", None), Callback(WdCancelConv)}

\* the step in which the handler wd_conv picks for update upd of u runs: a
\* cancel taken by the state CHOOSE_METHOD or CONFIRM_WITHDRAWAL, or by a
\* fallback
CancelHandled(u, upd) ==
    /\ u \in Senders
    /\ Idle(u)
    /\ CASE Route(u, upd) = "cancel_withdrawal_command" ->
                CancelReceived(u, upd)
         [] Route(u, upd) = "choose_payment_method_callback" ->
                \E answered \in BOOLEAN : MethodPressed(u, upd.data, answered)
         [] Route(u, upd) = "confirm_withdrawal_request_callback" ->
                \E answered \in BOOLEAN, ok \in BOOLEAN :
                    ConfirmPressed(u, upd.data, answered, ok)
         [] OTHER -> FALSE

\* C14: /cancelwithdrawal or the cancel button, received in any of the five
\* states of a withdrawal, ends the conversation and clears every field.
C14_CancelDiscardsSession ==
    [][\A u \in Users, upd \in ExplicitCancels :
        (wd_conv[u] # END /\ CancelHandled(u, upd)) => Discarded(u)]_vars

\* the session waits for a text with fields entered, and the cancel button
\* of an earlier message goes to cancel_withdrawal_command, whose
\* update.message is None
C14_CancelButtonInTextState ==
    /\ Idle(1)
    /\ wd_conv[1] \in {ENTER_FULL_NAME, ENTER_NUMBER, ENTER_AMOUNT}
    /\ ~NoFields(user_data[1])
    /\ Route(1, Callback(WdCancelConv)) = "cancel_withdrawal_command"

\* inputs that have nothing to do with a withdrawal: commands and the menu
\* buttons other than 'Withdraw Funds'
UnrelatedInputs ==
    {Command(c, None) : c \in {"start", "broadcast", "cancel"}}
    \cup {Text(b) : b \in MenuButtons}

\* C15: in every state of a withdrawal, any other command, /start and
\* /broadcast included, and any menu button is taken as a cancel: it reaches
\* the cancel handler of the conversation, and handling it ends the
\* conversation and clears every field.
C15_UnrelatedInputCancels ==
    /\ [](\A u \in Senders, upd \in UnrelatedInputs :
            wd_conv[u] # END => Route(u, upd) = "cancel_withdrawal_command")
    /\ [][\A u \in Senders, upd \in UnrelatedInputs :
            (wd_conv[u] # END /\ Idle(u)
                /\ Route(u, upd) = "cancel_withdrawal_command"
                /\ CancelReceived(u, upd)) => Discarded(u)]_vars

\* the session waits for the amount with its fields entered; the button
\* 'My Balance' is taken as the amount and /start goes to start_command,
\* and neither reaches the conversation's cancel
C15_MenuButtonTakenAsInput ==
    /\ Idle(1)
    /\ wd_conv[1] = ENTER_AMOUNT
    /\ ~NoFields(user_data[1])
    /\ Route(1, Text(BalanceButton)) = "enter_withdrawal_amount"
    /\ Route(1, Command("start", None)) = "start_command"

\* the messages of a step are this one message to u
Told(u, outcome) == reply' = Some([to |-> u, text |-> outcome, counts |-> None])

\* the step in which start_withdrawal handles 'Withdraw Funds' of u, sent
\* outside a conversation
StartHandled(u, ok) ==
    /\ u \in Senders
    /\ Idle(u)
    /\ wd_conv[u] = END
    /\ Route(u, Text(WithdrawButton)) = "start_withdrawal"
    /\ WithdrawalStarted(u, ok)

\* the account of u is on file with at least the minimum
CanWithdraw(u) == users[u] # None /\ Balance(u) >= MIN_WITHDRAWAL_AMOUNT

\* C16 as stated: start_withdrawal outside a conversation opens a session in
\* ENTER_FULL_NAME with empty fields when the balance is at least
\* MIN_WITHDRAWAL_AMOUNT, and otherwise leaves the conversation over and the
\* fields as they were.
C16_StartOpensSessionIff ==
    [][\A u \in Users, ok \in BOOLEAN :
        StartHandled(u, ok) =>
            IF CanWithdraw(u)
            THEN wd_conv'[u] = ENTER_FULL_NAME /\ NoFields(user_data'[u])
            ELSE wd_conv'[u] = END /\ user_data'[u] = user_data[u]]_vars

\* C16 (amended): a conversation that is over turns into a session only at
\* ENTER_FULL_NAME, with empty fields, for an account on file with at least
\* MIN_WITHDRAWAL_AMOUNT.  start_withdrawal opens it when get_user returned
\* such a row and the prompt was delivered; when the prompt raised the
\* fields are cleared and the conversation stays over; when get_user gave
\* no row or a lower balance it replies with the reason (or raises), the
\* conversation stays over and the fields are as they were.
C16_SessionOnlyWhenFunded ==
    /\ [][\A u \in Users :
            (wd_conv[u] = END /\ wd_conv'[u] # END) =>
                /\ CanWithdraw(u)
                /\ wd_conv'[u] = ENTER_FULL_NAME
                /\ user_data'[u] = EmptySession]_vars
    /\ [][\A u \in Users, ok \in BOOLEAN :
            StartHandled(u, ok) =>
                IF CanWithdraw(u) /\ ok
                THEN \/ /\ Told(u, "ask_name")
                        /\ wd_conv'[u] = ENTER_FULL_NAME
                        /\ user_data'[u] = EmptySession
                     \/ /\ Told(u, "raised")
                        /\ wd_conv'[u] = END
                        /\ user_data'[u] = EmptySession
                ELSE /\ \/ Told(u, IF users[u] # None /\ ok
                                   THEN "balance_low" ELSE "user_not_found")
                        \/ Told(u, "raised")
                     /\ wd_conv'[u] = END
                     /\ user_data'[u] = user_data[u]]_vars

\* user 1, with a balance of 500, has been asked for the name; user 2, with
\* a balance of 50, has no session
C16_Witness ==
    /\ reply = Some([to |-> 1, text |-> "ask_name", counts |-> None])
    /\ wd_conv[1] = ENTER_FULL_NAME
    /\ NoFields(user_data[1])
    /\ users[2] # None
    /\ wd_conv[2] = END

(* ------------------------------------------------------------------ *)
(* Broadcast: who may start it                                          *)
(* ------------------------------------------------------------------ *)

\* the users on the allow-list
Operators == {ADMIN_IDS[i] : i \in DOMAIN ADMIN_IDS}

\* C17: only a user on ADMIN_IDS gets a broadcast going: the broadcast
\* conversation of every other user stays over, no loop over the recipients
\* runs on behalf of another user, no turn of a loop is taken for one, and
\* no summary of a broadcast is sent to one.
C17_OnlyAdminsBroadcast ==
    /\ [](\A u \in Users \ Operators :
            /\ bc_conv[u] = END
            /\ ~Dispatching(u)
            /\ Turns(u) = <<>>)
    /\ [](\A m \in reply : m.counts # None => m.to \in Operators)
    /\ [][\A u \in Users :
            (Dispatching(u) \/ Dispatching(u)') => u \in Operators]_vars

\* user 2, who is not on the list, sent /broadcast and was refused, while the
\* broadcast of the admin is waiting for its confirmation
C17_Witness ==
    /\ reply = Some([to |-> 2, text |-> "admin_only", counts |-> None])
    /\ bc_conv[2] = END
    /\ bc_conv[1] = CONFIRM_BROADCAST_SEND

(* ------------------------------------------------------------------ *)
(* The referrer link                                                    *)
(* ------------------------------------------------------------------ *)

\* the referrer link of the account of a
RefBy(a) == Get(users[a]).ref_by

\* C18: the referrer link of an account never names the account itself, and
\* once the account is on file no step changes the link or removes the
\* account: the link is the one written when the account was created.
C18_RefByWrittenOnce ==
    /\ [](\A a \in Users : users[a] # None => RefBy(a) # Some(a))
    /\ [][\A a \in Users : users[a] # None =>
            /\ users'[a] # None
            /\ Get(users'[a]).ref_by = RefBy(a)]_vars

\* user 2 registered with user 1 as its referrer, the referrer has been
\* credited since, and user 2 has come back with /start
C18_Witness ==
    /\ users[2] # None
    /\ RefBy(2) = Some(1)
    /\ Balance(1) = MIN_WITHDRAWAL_AMOUNT + REFERRAL_BONUS
    /\ reply = Some([to |-> 2, text |-> "welcome_back", counts |-> None])

(* ------------------------------------------------------------------ *)
(* Withdrawal: failures of the two steps of a confirmation              *)
(* ------------------------------------------------------------------ *)

\* record_withdrawal of the confirmation of u fails in this step
RecordFails(u) ==
    /\ pc[u] = "wd_record"
    /\ pc'[u] # "wd_record"
    /\ withdrawals' = withdrawals

\* the step in which a confirmation of u whose record failed returns
RefundEnds(u) ==
    /\ ConfirmationEnds(u)
    /\ frame[u].caller = "confirm_refund"

\* C19: when the debit succeeded and record_withdrawal fails, the
\* confirmation calls update_user_balance(user, amount, 'add'), and when it
\* returns the balance is what it was before the debit, no request is on
\* file, and the user is told of the recording failure.
C19_RecordFailureCompensated ==
    /\ [][\A u \in Users : RecordFails(u) =>
            /\ pc'[u] = "ub_read"
            /\ frame'[u].caller = "confirm_refund"
            /\ frame'[u].ub_user = u
            /\ frame'[u].ub_op = "add"
            /\ frame'[u].ub_amount = Get(user_data[u].wd_amount)
            /\ users' = users]_vars
    /\ [][\A u \in Users : RefundEnds(u) =>
            /\ Get(users'[u]).balance = Get(frame[u].balance0)
            /\ withdrawals' = withdrawals
            /\ \/ Told(u, "WDC-RECFAIL-refunded")
               \/ Told(u, "WDC-RECFAIL-not-refunded")]_vars

\* the user has been told that the request could not be recorded and that
\* the refund failed too: the balance of 500 is gone and no request is on file
C19_DebitedNotRefunded ==
    /\ reply = Some([to |-> 1, text |-> "WDC-RECFAIL-not-refunded",
                     counts |-> None])
    /\ Balance(1) = 0
    /\ withdrawals = <<>>
    /\ wd_conv[1] = END

\* the step in which the debit of the confirmation of u returns something
\* other than True: insufficient_funds or False after get_user, False after
\* the update request
DebitFails(u) ==
    /\ pc[u] \in {"ub_read", "ub_write"}
    /\ frame[u].caller = "confirm_debit"
    /\ pc'[u] = "idle"

\* the step sends no notification to an admin
NobodyNotified == \A m \in reply' : m.text # "admin_notification"

\* C20: when the debit of a confirmation returns anything but True, nothing
\* else is done: no request is recorded, no balance is written (no credit,
\* no debit), no admin is notified, the handler returns without calling
\* record_withdrawal, and the session is discarded.
C20_DebitFailureAborts ==
    [][\A u \in Users : DebitFails(u) =>
        /\ withdrawals' = withdrawals
        /\ users' = users
        /\ NobodyNotified
        /\ Discarded(u)]_vars

\* the money part of the abort, whether or not the failure message went
\* through: nothing is recorded, written or notified, and the session is
\* discarded unless the message raised
DebitFailureTouchesNothing ==
    [][\A u \in Users : DebitFails(u) =>
        /\ withdrawals' = withdrawals
        /\ users' = users
        /\ NobodyNotified
        /\ Discarded(u) \/ Told(u, "raised")]_vars

\* the debit of user 1 failed, the failure message could not be delivered,
\* and the session still waits for a confirm with its fields, the balance
\* untouched
C20_AbortedNotDiscarded ==
    /\ reply = Some([to |-> 1, text |-> "raised", counts |-> None])
    /\ Idle(1)
    /\ wd_conv[1] = CONFIRM_WITHDRAWAL
    /\ SessionComplete(user_data[1])
    /\ Balance(1) = MIN_WITHDRAWAL_AMOUNT
    /\ withdrawals = <<>>

(* ------------------------------------------------------------------ *)
(* Withdrawal: the checks of a confirmation                             *)
(* ------------------------------------------------------------------ *)

\* the step in which confirm_withdrawal_request_callback handles a
\* wd_final_confirm of u in CONFIRM_WITHDRAWAL
ConfirmHandled(u, answered, ok) ==
    /\ u \in Senders
    /\ Idle(u)
    /\ wd_conv[u] = CONFIRM_WITHDRAWAL
    /\ ConfirmPressed(u, WdFinalConfirm, answered, ok)

\* the session of u has all its fields and the balance on file no longer
\* covers its amount
BalanceFellShort(u) ==
    /\ SessionComplete(user_data[u])
    /\ users[u] # None
    /\ Balance(u) < Get(user_data[u].wd_amount)

\* C21: a confirm processed when the balance on file is below the amount of
\* the session aborts with the insufficient-balance message, starts no debit,
\* records nothing, and discards the session.
C21_RevalidatedAtConfirm ==
    [][\A u \in Users, answered \in BOOLEAN, ok \in BOOLEAN :
        (BalanceFellShort(u) /\ ConfirmHandled(u, answered, ok)) =>
            /\ pc'[u] = "idle"
            /\ users' = users
            /\ withdrawals' = withdrawals
            /\ Told(u, "WDC-LBAL")
            /\ Discarded(u)]_vars

\* the money part of the re-validation, whether or not the messages went
\* through: with the balance below the amount no debit starts and nothing is
\* written, and the session is discarded unless a message call raised
ShortBalanceTouchesNothing ==
    [][\A u \in Users, answered \in BOOLEAN, ok \in BOOLEAN :
        (BalanceFellShort(u) /\ ConfirmHandled(u, answered, ok)) =>
            /\ pc'[u] = "idle"
            /\ users' = users
            /\ withdrawals' = withdrawals
            /\ \/ Told(u, "WDC-LBAL") /\ Discarded(u)
               \/ Told(u, "raised")]_vars

\* the balance of user 1 went from 500 to 0 after the amount step, by a
\* first confirm, and a second confirm was refused for it
C21_RefusedAfterBalanceFell ==
    /\ reply = Some([to |-> 1, text |-> "WDC-LBAL", counts |-> None])
    /\ Len(withdrawals) = 1
    /\ Balance(1) = 0
    /\ wd_conv[1] = END

(* ------------------------------------------------------------------ *)
(* Withdrawal: the notification of the operators                        *)
(* ------------------------------------------------------------------ *)

\* record_withdrawal of the confirmation of u succeeds in this step
RecordSucceeds(u) ==
    /\ pc[u] = "wd_record"
    /\ Recorded(u, frame[u].ub_amount)

\* the step makes the notification call for operator a, delivered or not
NotificationAttempted(a) ==
    \E m \in reply' :
        /\ m.to = a
        /\ m.text \in {"admin_notification", "admin_notification_failed"}

\* no step removes or changes a request on file
RequestsKept ==
    /\ Len(withdrawals') >= Len(withdrawals)
    /\ \A i \in 1..Len(withdrawals) : withdrawals'[i] = withdrawals[i]

\* C22: once the debit and the record of a confirmation have succeeded, the
\* notification call is made for every id of ADMIN_IDS, whether or not the
\* call for another id failed, the balance stays debited, and the request
\* stays on file.
C22_EveryOperatorNotified ==
    /\ [][\A u \in Users : RecordSucceeds(u) =>
            /\ \A a \in Operators : NotificationAttempted(a)
            /\ users' = users]_vars
    /\ [][RequestsKept]_vars

\* the notification of operator 1 failed, operator 3 got its notification,
\* and the request stands with the balance debited
C22_OneFailedOtherNotified ==
    /\ [to |-> 1, text |-> "admin_notification_failed", counts |-> None] \in reply
    /\ [to |-> 3, text |-> "admin_notification", counts |-> None] \in reply
    /\ Len(withdrawals) = 1
    /\ Balance(1) = 0

\* the isolation of the notifications and the absence of a rollback: after
\* the record the balance stays debited and the request stays on file, and
\* the call is made for every operator unless the reply to the user raised
NotificationsIsolated ==
    /\ [][\A u \in Users : RecordSucceeds(u) =>
            /\ (\A a \in Operators : NotificationAttempted(a))
                    \/ Told(u, "raised")
            /\ users' = users]_vars
    /\ [][RequestsKept]_vars

\* a line written with logger.error (lines 103, 140, 146, 157);
\* "Balance update attempt for non-existent user" is a logger.warning
ErrorLines ==
    {"Error fetching user", "Error updating balance",
     "Error incrementing referral count"}

\* the registration of u with a referrer has just run its referrer-side part
ReferredRegistrationDone(u) ==
    /\ pc[u] = "idle"
    /\ [to |-> u, text |-> "welcome_referred", counts |-> None] \in reply

\* the effect was applied, or an error line about it was logged
AppliedOrLogged(u, effect) ==
    \/ effect \in accrued[u].done
    \/ \E l \in accrued[u].logged : l[1] = effect /\ l[2] \in ErrorLines

\* C23: after a registration with a referrer, each of the two referrer-side
\* effects (the bonus credit, the referral count increment) has been applied
\* or has been logged as an error, also when the referrer's row vanished
\* between the existence check and the credit.
C23_EffectAppliedOrLogged ==
    \A u \in Users :
        ReferredRegistrationDone(u) =>
            /\ AppliedOrLogged(u, "credit")
            /\ AppliedOrLogged(u, "count")

\* as long as no row is deleted under the bot, an effect that was not applied
\* left an error line
EffectAppliedOrLoggedWhileRowsStay ==
    \A u \in Users :
        (ReferredRegistrationDone(u) /\ users[3] # None) =>
            /\ AppliedOrLogged(u, "credit")
            /\ AppliedOrLogged(u, "count")

\* a registration whose referrer is gone ended with nothing logged about the
\* referral count, which was not incremented
C23_CountSkippedSilently ==
    \E u \in Users :
        /\ ReferredRegistrationDone(u)
        /\ "count" \notin accrued[u].done
        /\ \A l \in accrued[u].logged : l[1] # "count"


\* the input the session of u has just taken is the valid input of state st
TookValidInput(u, st) ==
    LET ud == user_data'[u]
    IN  CASE st = ENTER_FULL_NAME ->
                ud.wd_name # None /\ ValidName(Get(ud.wd_name))
          [] st = CHOOSE_METHOD ->
                ud.wd_method # None /\ Get(ud.wd_method) # "conv"
          [] st = ENTER_NUMBER ->
                ud.wd_acc_num # None /\ ValidAccountNumber(Get(ud.wd_acc_num))
          [] st = ENTER_AMOUNT ->
                /\ ud.wd_amount # None
                /\ users[u] # None
                /\ AmountAccepted(Get(ud.wd_amount), Balance(u))
          [] OTHER -> FALSE

\* the session of u moves as the workflow allows: it stays, it ends, it is
\* started anew by the Withdraw button, or it goes one state forward on the
\* valid input of the state it leaves
SessionMovesAlongChain(u) ==
    \/ wd_conv'[u] = wd_conv[u]
    \/ wd_conv'[u] = END
    \/ wd_conv'[u] = ENTER_FULL_NAME /\ user_data'[u] = EmptySession
    \/ /\ wd_conv[u] \in {ENTER_FULL_NAME, CHOOSE_METHOD, ENTER_NUMBER, ENTER_AMOUNT}
       /\ wd_conv'[u] = wd_conv[u] + 1
       /\ TookValidInput(u, wd_conv[u])

\* the debit of a confirmation is under way for u
Debiting(u) ==
    pc[u] \in {"ub_read", "ub_write"} /\ frame[u].caller = "confirm_debit"

\* C24: a withdrawal session advances only along ENTER_FULL_NAME ->
\* CHOOSE_METHOD -> ENTER_NUMBER -> ENTER_AMOUNT -> CONFIRM_WITHDRAWAL -> END,
\* each step on the valid input of the state it leaves; no state is skipped,
\* and the debit is issued and carried out only in CONFIRM_WITHDRAWAL.
C24_SessionAdvancesInOrder ==
    /\ [](\A u \in Users : Debiting(u) => wd_conv[u] = CONFIRM_WITHDRAWAL)
    /\ [][\A u \in Users :
            /\ SessionMovesAlongChain(u)
            /\ (users[u] # None /\ users'[u] # None
                    /\ Get(users'[u]).balance < Balance(u))
                => (Debiting(u) /\ wd_conv[u] = CONFIRM_WITHDRAWAL)]_vars

\* user 1 went through the five states and the debit of the confirmation is
\* about to be written
C24_Witness ==
    /\ pc[1] = "ub_write"
    /\ frame[1].caller = "confirm_debit"
    /\ wd_conv[1] = CONFIRM_WITHDRAWAL
    /\ SessionComplete(user_data[1])


\* the amount typed is not a number, or is a number out of the range the
\* account of u allows
AmountOutOfRange(u, message_text) ==
    LET amt == ParseInt(message_text)
    IN  \/ amt = None
        \/ Get(amt) < MIN_WITHDRAWAL_AMOUNT
        \/ users[u] # None /\ Get(amt) > Balance(u)

\* user u sends a text that fails the validation of the state its session is
\* in, and this step is the handler's
ValidationErrorHandled(u, upd, ok) ==
    /\ Receives(u)
    /\ \/ /\ Route(u, upd) = "enter_full_name"
          /\ ~ValidName(Strip(upd.text))
          /\ NameEntered(u, upd.text)
       \/ /\ Route(u, upd) = "enter_account_number"
          /\ ~ValidAccountNumber(Strip(upd.text))
          /\ NumberEntered(u, upd.text, ok)
       \/ /\ Route(u, upd) = "enter_withdrawal_amount"
          /\ AmountOutOfRange(u, upd.text)
          /\ AmountEntered(u, upd.text, ok)

\* the session and the stores are as they were
NothingTouched(u) ==
    /\ wd_conv'[u] = wd_conv[u]
    /\ user_data'[u] = user_data[u]
    /\ users' = users
    /\ withdrawals' = withdrawals

\* C25: an invalid name, an invalid account number, a non-numeric or an
\* out-of-range amount is recovered locally: the session stays in its state
\* with its fields, no store is written, and no fault is raised.
C25_ValidationErrorRecovered ==
    [][\A u \in Users, upd \in TextUpdates, ok \in BOOLEAN :
           ValidationErrorHandled(u, upd, ok) =>
               (NothingTouched(u) /\ ~Told(u, "raised"))]_vars

\* whether or not the handler raises, a validation error leaves the session
\* and the stores as they were
ValidationErrorTouchesNothing ==
    [][\A u \in Users, upd \in TextUpdates, ok \in BOOLEAN :
           ValidationErrorHandled(u, upd, ok) => NothingTouched(u)]_vars

\* the amount handler of user 1 raised before an amount was stored
C25_AmountHandlerRaised ==
    /\ pc[1] = "idle"
    /\ wd_conv[1] = ENTER_AMOUNT
    /\ user_data[1].wd_amount = None
    /\ [to |-> 1, text |-> "raised", counts |-> None] \in reply


\* the confirmation of u is between its debit and its last reply: the confirm
\* button was pressed in CONFIRM_WITHDRAWAL and the handler has not returned
Confirming(u) ==
    /\ pc[u] \in {"ub_read", "ub_write", "wd_record"}
    /\ frame[u].caller \in {"confirm_debit", "confirm_refund"}
    /\ wd_conv[u] = CONFIRM_WITHDRAWAL

\* C26: no mutation before confirmation: the users table (every balance) and
\* the withdrawals table change only in a step of a confirmation under way
\* in CONFIRM_WITHDRAWAL; start, name, method, account number, amount, cancel
\* and implicit cancel leave both as they were.
C26_NoMutationBeforeConfirm ==
    [][(users' # users \/ withdrawals' # withdrawals) =>
           \E u \in Users : Confirming(u) /\ pc'[u] # pc[u]]_vars

\* user 1 has gone through start, name, method, number and amount, and the
\* stores are as they were when the bot started
C26_Witness ==
    /\ pc[1] = "idle"
    /\ wd_conv[1] = CONFIRM_WITHDRAWAL
    /\ SessionComplete(user_data[1])
    /\ withdrawals = <<>>
    /\ \A a \in Users : net[a] = 0
    /\ Balance(1) = MIN_WITHDRAWAL_AMOUNT


\* the handler of u has left the loop, built summary_msg over the whole list
\* and made the call that sends it
SummaryProduced(u) ==
    /\ pc[u] = "idle"
    /\ \E m \in reply :
          /\ m.to = u
          /\ m.counts # None
          /\ Get(m.counts).targeted = Cardinality(OnFile)

\* C27: once the loop of a broadcast has started over a non-empty list, and
\* every send call returns or raises, the loop eventually gets through the
\* whole list and the handler then produces the summary, whatever each
\* delivery did.
C27_DispatchCompletes ==
    \A u \in Users :
        /\ Dispatching(u) ~> LoopDone(u)
        /\ LoopDone(u) ~> SummaryProduced(u)

\* the loop of user 1 has started over three recipients and has two to go
C27_Witness ==
    /\ Dispatching(1)
    /\ Len(frame[1].all_uids) = 3
    /\ frame[1].next_target = 2
    /\ frame[1].failed_count = 1


RECURSIVE AmountsFrom(_, _, _)
\* the sum of the amounts of the requests of account a from row i on
AmountsFrom(rows, a, i) ==
    IF i > Len(rows) THEN 0
    ELSE (IF rows[i].user_id = a THEN rows[i].amount ELSE 0)
         + AmountsFrom(rows, a, i + 1)

\* the sum of the amounts of the requests on file for account a
RecordedSum(a) == AmountsFrom(withdrawals, a, 1)

\* the referral credits written to account a
CreditsReceived(a) ==
    LET referred == {u \in Users : users[u] # None /\ RefBy(u) = Some(a)}
        credit(u) == IF u \in referred THEN accrued[u].credit ELSE 0
    IN  REFERRAL_BONUS * (credit(1) + credit(2) + credit(3))

\* no call of update_user_balance or record_withdrawal is under way, and
\* every amount written to the balance of a is a credit received or the
\* debit of a request on file
Settled(a) ==
    /\ \A u \in Users : pc[u] \notin {"ub_read", "ub_write", "wd_record"}
    /\ net[a] = CreditsReceived(a) - RecordedSum(a)

\* C28: no double spend: however the confirmations of a user and the
\* referral credits to that user interleave, once the calls have returned
\* the balance plus the amounts of the user's requests on file is the
\* balance the account started with plus the referral credits received.
C28_NoDoubleSpend ==
    \A a \in Users :
        (users[a] # None /\ Settled(a)) =>
            Balance(a) + RecordedSum(a) = InitBalance(a) + CreditsReceived(a)

\* user 1 had 500 and got one referral credit of 10; a request of 500 is on
\* file and the balance is 510; no store call of the registration failed
C28_SpentTwice ==
    /\ pc[1] = "idle"
    /\ pc[2] = "rc_read"
    /\ ~frame[2].faulted
    /\ accrued[2].credit = 1
    /\ Len(withdrawals) = 1
    /\ withdrawals[1].user_id = 1
    /\ withdrawals[1].amount = MIN_WITHDRAWAL_AMOUNT
    /\ Balance(1) = MIN_WITHDRAWAL_AMOUNT + REFERRAL_BONUS


\* a field of the session of u is missing
FieldMissing(u) == ~SessionComplete(user_data[u])

\* C29: a confirm processed while a field of the session (name, method,
\* account number, amount) is missing aborts before it touches the stores:
\* no balance is read for the debit, no debit is started, nothing is
\* recorded, and the session is discarded.
C29_MissingFieldAborts ==
    [][\A u \in Users, answered \in BOOLEAN, ok \in BOOLEAN :
        (FieldMissing(u) /\ ConfirmHandled(u, answered, ok)) =>
            /\ pc'[u] = "idle"
            /\ users' = users
            /\ withdrawals' = withdrawals
            /\ Told(u, "WDC-MDATA")
            /\ Discarded(u)]_vars

\* the store part of the abort, whether or not the messages went through:
\* with a field missing the confirm starts no debit and writes nothing, and
\* the session is discarded unless a message call raised
MissingFieldTouchesNothing ==
    [][\A u \in Users, answered \in BOOLEAN, ok \in BOOLEAN :
        (FieldMissing(u) /\ ConfirmHandled(u, answered, ok)) =>
            /\ pc'[u] = "idle"
            /\ users' = users
            /\ withdrawals' = withdrawals
            /\ \/ Told(u, "WDC-MDATA") /\ Discarded(u)
               \/ Told(u, "raised")]_vars

\* a handler of user 1 raised in CONFIRM_WITHDRAWAL with the fields of the
\* session gone: the conversation is still waiting for the confirm
C29_AbortedStillConfirming ==
    /\ pc[1] = "idle"
    /\ wd_conv[1] = CONFIRM_WITHDRAWAL
    /\ NoFields(user_data[1])
    /\ reply = Some([to |-> 1, text |-> "raised", counts |-> None])


\* the request on file carries an amount of at least the minimum and a
\* name, a method and an account number that are not empty
WellFormed(row) ==
    /\ row.amount >= MIN_WITHDRAWAL_AMOUNT
    /\ row.amount > 0
    /\ row.full_name # <<>>
    /\ row.method # ""
    /\ row.account_number # <<>>

\* the state of wd_conv whose handler stores the field
StateOf(field) ==
    CASE field = "wd_name" -> ENTER_FULL_NAME
      [] field = "wd_method" -> CHOOSE_METHOD
      [] field = "wd_acc_num" -> ENTER_NUMBER
      [] field = "wd_amount" -> ENTER_AMOUNT

\* a field of the session of u is written only by the handler of its own
\* state, or together with all the others when user_data is cleared
FieldsOfOneSession(u) ==
    \A field \in {"wd_name", "wd_method", "wd_acc_num", "wd_amount"} :
        user_data'[u][field] # user_data[u][field] =>
            \/ NoFields(user_data'[u])
            \/ /\ wd_conv[u] = StateOf(field)
               /\ \A other \in {"wd_name", "wd_method", "wd_acc_num",
                                  "wd_amount"} \ {field} :
                      user_data'[u][other] = user_data[u][other]

\* C30: every request on file has an amount of at least
\* MIN_WITHDRAWAL_AMOUNT, which was no more than the balance read just before
\* its debit (by the confirmation and by update_user_balance), and a
\* non-empty name, method and account number, which are the fields of the
\* session that confirmed it.
C30_RecordedRequestsValid ==
    /\ [](\A i \in 1..Len(withdrawals) : WellFormed(withdrawals[i]))
    /\ [][\A u \in Users :
            /\ FieldsOfOneSession(u)
            /\ (pc[u] = "wd_record" /\ withdrawals' # withdrawals) =>
                  LET row == withdrawals'[Len(withdrawals')]
                  IN  /\ withdrawals' = Append(withdrawals, row)
                      /\ row.user_id = u
                      /\ wd_conv[u] = CONFIRM_WITHDRAWAL
                      /\ row.full_name = Get(user_data[u].wd_name)
                      /\ row.method = Get(user_data[u].wd_method)
                      /\ row.account_number = Get(user_data[u].wd_acc_num)
                      /\ row.amount = Get(user_data[u].wd_amount)
                      /\ row.amount <= Get(frame[u].balance0)
                      /\ row.amount <= frame[u].current_balance]_vars

\* the request of user 1 is on file with the fields of its session, and the
\* balance it was taken from is down to zero
C30_Witness ==
    /\ Len(withdrawals) = 1
    /\ withdrawals[1].user_id = 1
    /\ withdrawals[1].amount = MIN_WITHDRAWAL_AMOUNT
    /\ withdrawals[1].full_name = <<"A", "l", "i">>
    /\ withdrawals[1].method = "bkash"
    /\ Balance(1) = 0


\* the fields of user_data the withdrawal conversation accumulates
WdFields(ud) == <<ud.wd_name, ud.wd_method, ud.wd_acc_num, ud.wd_amount>>

\* the payload of user_data the broadcast conversation stores
BcFields(ud) == <<ud.bt, ud.bpi, ud.bvi>>

\* what the handlers of bc_conv answer when they return
BcTexts ==
    {"ask_broadcast", "admin_only", "broadcast_preview", "broadcast_cancelled",
     "no_users", "broadcast_complete"}

\* this step is a step of a handler of bc_conv for user u: a turn of its
\* loop, a handler that returned, or receive_broadcast_message storing a
\* payload before its preview raised (the only broadcast handler that has
\* written user_data when it raises)
BroadcastStep(u) ==
    \/ Dispatching(u)
    \/ pc'[u] = "bc_send"
    \/ \E m \in reply' : m.to = u /\ m.text \in BcTexts
    \/ /\ bc_conv[u] = BROADCAST_MESSAGE
       /\ BcFields(user_data'[u]) # BcFields(user_data[u])
       /\ HasPayload(user_data'[u])

\* C31: the withdrawal conversation and the broadcast conversation of one
\* user do not interfere through context.user_data: the withdrawal fields
\* are never cleared or altered by a step of a broadcast handler, and the
\* broadcast payload is written or cleared by a step of a broadcast handler
\* only.
C31_ConversationsDoNotInterfere ==
    [][\A u \in Users :
        /\ WdFields(user_data'[u]) # WdFields(user_data[u]) => ~BroadcastStep(u)
        /\ BcFields(user_data'[u]) # BcFields(user_data[u]) => BroadcastStep(u)]_vars

\* the only interference is context.user_data.clear(): a step that touches
\* the fields of the other conversation leaves user_data empty, and the
\* user_data of the other users is never touched
OnlyClearInterferes ==
    [][\A u \in Users :
        /\ (WdFields(user_data'[u]) # WdFields(user_data[u]) /\ BroadcastStep(u))
              => user_data'[u] = EmptySession
        /\ (BcFields(user_data'[u]) # BcFields(user_data[u]) /\ ~BroadcastStep(u))
              => user_data'[u] = EmptySession
        /\ user_data'[u] # user_data[u] =>
              \A v \in Users \ {u} : user_data'[v] = user_data[v]]_vars

\* the operator cancelled a broadcast while their withdrawal was waiting for
\* the confirm: the fields of the withdrawal are gone
C31_WithdrawalWipedByBroadcast ==
    /\ pc[1] = "idle"
    /\ wd_conv[1] = CONFIRM_WITHDRAWAL
    /\ NoFields(user_data[1])
    /\ [to |-> 1, text |-> "broadcast_cancelled", counts |-> None] \in reply

\* the operator started a withdrawal while their broadcast was waiting for
\* the confirm: the payload is gone and the broadcast can still be sent
PayloadWipedByWithdrawal ==
    /\ pc[1] = "idle"
    /\ bc_conv[1] = CONFIRM_BROADCAST_SEND
    /\ ~HasPayload(user_data[1])
    /\ [to |-> 1, text |-> "ask_name", counts |-> None] \in reply


====
